---- MODULE Spec2Model ----
(***************************************************************************)
(* Diagnostic payload pipeline of the voice/chat front-end: the side       *)
(* channel listener (useDiagnosticWebSocket), the SessionView component    *)
(* (stored payload, adapter fallback timer, getLatestTextContent,          *)
(* displayMessages) and the TextOutputPanel normaliser.                    *)
(*                                                                         *)
(* Strings are sequences of tokens.  A token is one punctuation character  *)
(* or one maximal word of letters, digits and underscores, so every        *)
(* character string has exactly one token sequence and prefix tests,       *)
(* pattern matches, JSON.parse and JSON.stringify are computed on the      *)
(* tokens the way the code computes them on characters.                    *)
(***************************************************************************)
EXTENDS Integers, Sequences, FiniteSets, TLC

(***************************************************************************)
(* Tokens                                                                  *)
(***************************************************************************)
Q == "\""
BS == "\\"
SP == " "
NL == "\n"
EmptyStr == <<>>

\* words that JSON.parse reads as number literals
NumberToks == {"0", "5"}

RECURSIVE TrimLeft(_)
TrimLeft(s) ==
  IF s # <<>> /\ Head(s) \in {SP, NL} THEN TrimLeft(Tail(s)) ELSE s

RECURSIVE TrimRight(_)
TrimRight(s) ==
  IF s # <<>> /\ s[Len(s)] \in {SP, NL} THEN TrimRight(SubSeq(s, 1, Len(s) - 1)) ELSE s

\* String.prototype.trim
Trim(s) == TrimRight(TrimLeft(s))

\* String.prototype.startsWith
StartsWith(s, p) == Len(s) >= Len(p) /\ SubSeq(s, 1, Len(p)) = p

\* String.prototype.slice(n)
SliceFrom(s, n) == SubSeq(s, n + 1, Len(s))

(***************************************************************************)
(* JavaScript values as far as JSON produces them, plus undefined.         *)
(* One record shape for all of them: t the type tag, s the characters of   *)
(* a string, number or literal, kv the members of an object (records       *)
(* [k, v] in insertion order) or the elements of an array.                 *)
(***************************************************************************)
JUndef == [t |-> "undefined", s |-> <<>>, kv |-> <<>>]
JNull == [t |-> "null", s |-> <<>>, kv |-> <<>>]
JTrue == [t |-> "bool", s |-> <<"true">>, kv |-> <<>>]
JFalse == [t |-> "bool", s |-> <<"false">>, kv |-> <<>>]
JNum(tok) == [t |-> "num", s |-> <<tok>>, kv |-> <<>>]
JStr(str) == [t |-> "str", s |-> str, kv |-> <<>>]
JArr(items) == [t |-> "arr", s |-> <<>>, kv |-> items]
JObj(members) == [t |-> "obj", s |-> <<>>, kv |-> members]
KV(key, val) == [k |-> key, v |-> val]

\* the result of a JSON.parse that threw SyntaxError
ParseFailed == [ok |-> FALSE, v |-> JUndef, next |-> 0]
Parsed(val, nxt) == [ok |-> TRUE, v |-> val, next |-> nxt]

\* ToBoolean
Truthy(v) ==
  CASE v.t = "undefined" -> FALSE
    [] v.t = "null" -> FALSE
    [] v.t = "bool" -> v = JTrue
    [] v.t = "num" -> v.s # <<"0">>
    [] v.t = "str" -> v.s # <<>>
    [] OTHER -> TRUE

\* typeof v === 'string'
IsString(v) == v.t = "str"

\* Array.isArray
IsArray(v) == v.t = "arr"

\* typeof v === 'object' for a truthy v
IsObjectType(v) == v.t \in {"obj", "arr"}

RECURSIVE Lookup(_, _, _)
Lookup(members, key, i) ==
  IF i = 0 THEN JUndef
  ELSE IF members[i].k = key THEN members[i].v
  ELSE Lookup(members, key, i - 1)

\* v.key for a v that is neither null nor undefined (the code guards the
\* access with `v &&`); a primitive or an array has none of the keys read here
Get(v, key) == IF v.t = "obj" THEN Lookup(v.kv, key, Len(v.kv)) ELSE JUndef

\* `key in v` for an object v
HasKey(v, key) == v.t = "obj" /\ \E i \in 1..Len(v.kv) : v.kv[i].k = key

\* defining a property: a repeated key keeps its place and takes the new value
Put(members, key, val) ==
  IF \E i \in 1..Len(members) : members[i].k = key
  THEN [i \in 1..Len(members) |->
          IF members[i].k = key THEN KV(key, val) ELSE members[i]]
  ELSE Append(members, KV(key, val))

(***************************************************************************)
(* JSON.parse and JSON.stringify                                           *)
(***************************************************************************)
RECURSIVE SkipWs(_, _)
SkipWs(s, i) == IF i <= Len(s) /\ s[i] \in {SP, NL} THEN SkipWs(s, i + 1) ELSE i

\* the characters of a string literal whose opening quote is at i - 1
RECURSIVE ScanString(_, _, _)
ScanString(s, i, acc) ==
  IF i > Len(s) THEN ParseFailed
  ELSE IF s[i] = Q THEN Parsed(JStr(acc), i + 1)
  ELSE IF s[i] = NL THEN ParseFailed
  ELSE IF s[i] = BS THEN
    IF i + 1 > Len(s) THEN ParseFailed
    ELSE IF s[i + 1] \in {Q, BS, "/"} THEN ScanString(s, i + 2, Append(acc, s[i + 1]))
    ELSE IF s[i + 1] = "n" THEN ScanString(s, i + 2, Append(acc, NL))
    ELSE ParseFailed
  ELSE ScanString(s, i + 1, Append(acc, s[i]))

RECURSIVE ParseValue(_, _)
RECURSIVE ParseMembers(_, _, _)
RECURSIVE ParseElements(_, _, _)

ParseValue(s, i0) ==
  LET i == SkipWs(s, i0) IN
  IF i > Len(s) THEN ParseFailed
  ELSE CASE s[i] = Q -> ScanString(s, i + 1, <<>>)
         [] s[i] = "{" ->
              LET j == SkipWs(s, i + 1) IN
              IF j <= Len(s) /\ s[j] = "}" THEN Parsed(JObj(<<>>), j + 1)
              ELSE ParseMembers(s, j, <<>>)
         [] s[i] = "[" ->
              LET j == SkipWs(s, i + 1) IN
              IF j <= Len(s) /\ s[j] = "]" THEN Parsed(JArr(<<>>), j + 1)
              ELSE ParseElements(s, j, <<>>)
         [] s[i] = "null" -> Parsed(JNull, i + 1)
         [] s[i] = "true" -> Parsed(JTrue, i + 1)
         [] s[i] = "false" -> Parsed(JFalse, i + 1)
         [] s[i] \in NumberToks -> Parsed(JNum(s[i]), i + 1)
         [] OTHER -> ParseFailed

ParseMembers(s, i0, acc) ==
  LET i == SkipWs(s, i0) IN
  IF i > Len(s) \/ s[i] # Q THEN ParseFailed
  ELSE
    LET key == ScanString(s, i + 1, <<>>) IN
    IF ~key.ok THEN ParseFailed
    ELSE
      LET c == SkipWs(s, key.next) IN
      IF c > Len(s) \/ s[c] # ":" THEN ParseFailed
      ELSE
        LET val == ParseValue(s, c + 1) IN
        IF ~val.ok THEN ParseFailed
        ELSE
          LET d == SkipWs(s, val.next)
              acc2 == Put(acc, key.v.s, val.v)
          IN IF d > Len(s) THEN ParseFailed
             ELSE IF s[d] = "}" THEN Parsed(JObj(acc2), d + 1)
             ELSE IF s[d] = "," THEN ParseMembers(s, d + 1, acc2)
             ELSE ParseFailed

ParseElements(s, i0, acc) ==
  LET val == ParseValue(s, i0) IN
  IF ~val.ok THEN ParseFailed
  ELSE
    LET d == SkipWs(s, val.next)
        acc2 == Append(acc, val.v)
    IN IF d > Len(s) THEN ParseFailed
       ELSE IF s[d] = "]" THEN Parsed(JArr(acc2), d + 1)
       ELSE IF s[d] = "," THEN ParseElements(s, d + 1, acc2)
       ELSE ParseFailed

\* JSON.parse(s): ok is FALSE where the call throws SyntaxError
JSONparse(s) ==
  LET r == ParseValue(s, 1) IN
  IF r.ok /\ SkipWs(s, r.next) > Len(s) THEN r ELSE ParseFailed

RECURSIVE Escape(_)
Escape(str) ==
  IF str = <<>> THEN <<>>
  ELSE (IF Head(str) \in {Q, BS} THEN <<BS, Head(str)>>
        ELSE IF Head(str) = NL THEN <<BS, "n">>
        ELSE <<Head(str)>>) \o Escape(Tail(str))

Quote(str) == <<Q>> \o Escape(str) \o <<Q>>

RECURSIVE JSONstringify(_)
RECURSIVE StringifyMembers(_, _)
RECURSIVE StringifyElements(_, _)

\* JSON.stringify(v) for a v that is not undefined
JSONstringify(v) ==
  CASE v.t = "str" -> Quote(v.s)
    [] v.t = "obj" -> <<"{">> \o StringifyMembers(v.kv, TRUE) \o <<"}">>
    [] v.t = "arr" -> <<"[">> \o StringifyElements(v.kv, TRUE) \o <<"]">>
    [] v.t = "null" -> <<"null">>
    [] OTHER -> v.s

StringifyMembers(members, first) ==
  IF members = <<>> THEN <<>>
  ELSE IF Head(members).v.t = "undefined" THEN StringifyMembers(Tail(members), first)
  ELSE (IF first THEN <<>> ELSE <<",">>)
       \o Quote(Head(members).k) \o <<":">> \o JSONstringify(Head(members).v)
       \o StringifyMembers(Tail(members), FALSE)

StringifyElements(items, first) ==
  IF items = <<>> THEN <<>>
  ELSE (IF first THEN <<>> ELSE <<",">>)
       \o (IF Head(items).t = "undefined" THEN <<"null">> ELSE JSONstringify(Head(items)))
       \o StringifyElements(Tail(items), FALSE)

(***************************************************************************)
(* Property names and the fixed strings of the encodings                   *)
(***************************************************************************)
K_content == <<"content">>
K_text_output == <<"text_output">>
K_voice_output == <<"voice_output">>
K_web_sources == <<"web_sources">>
K_youtube_videos == <<"youtube_videos">>
K_type == <<"type">>
K_payload == <<"payload">>
DiagnosticTextType == <<"diagnostic", ":", "text">>
TEXT_ONLY_PREFIX == <<"TEXT_ONLY", ":">>
VOICE_PREFIX == <<"VOICE", ":">>
TEXT_SEPARATOR == <<"|", "|", "|", "TEXT", ":">>

\* the least j >= i at which TEXT_SEPARATOR starts in raw, 0 if there is none
RECURSIVE FindSeparator(_, _)
FindSeparator(raw, i) ==
  IF i + Len(TEXT_SEPARATOR) - 1 > Len(raw) THEN 0
  ELSE IF SubSeq(raw, i, i + Len(TEXT_SEPARATOR) - 1) = TEXT_SEPARATOR THEN i
  ELSE FindSeparator(raw, i + 1)

\* raw.match(/^VOICE:([\s\S]*?)\|\|\|TEXT:([\s\S]*)$/): the lazy first group
\* ends at the first separator after the prefix
VoiceTextMatch(raw) ==
  IF ~StartsWith(raw, VOICE_PREFIX)
  THEN [matched |-> FALSE, voice |-> <<>>, text |-> <<>>]
  ELSE
    LET j == FindSeparator(raw, Len(VOICE_PREFIX) + 1) IN
    IF j = 0 THEN [matched |-> FALSE, voice |-> <<>>, text |-> <<>>]
    ELSE [matched |-> TRUE,
          voice |-> SubSeq(raw, Len(VOICE_PREFIX) + 1, j - 1),
          text |-> SubSeq(raw, j + Len(TEXT_SEPARATOR), Len(raw))]

(***************************************************************************)
(* SessionView.getLatestTextContent                                        *)
(***************************************************************************)
NotFound == [found |-> FALSE, text |-> <<>>]
Found(str) == [found |-> TRUE, text |-> str]

\* messages.filter((m) => !m.from?.isLocal && typeof m.message === 'string')
AssistantMessages(msgs) == SelectSeq(msgs, LAMBDA m : ~m.isLocal)

\* step 3: the TEXT_ONLY: loop, newest first
RECURSIVE TextOnlyLoop(_, _)
TextOnlyLoop(am, i) ==
  IF i = 0 THEN NotFound
  ELSE
    LET raw == am[i].message IN
    IF StartsWith(raw, TEXT_ONLY_PREFIX)
    THEN
      LET payload == Trim(SliceFrom(raw, Len(TEXT_ONLY_PREFIX)))
          parsed == JSONparse(payload)
      IN IF ~parsed.ok THEN Found(payload)
         ELSE IF Truthy(parsed.v) /\ IsString(Get(parsed.v, K_content))
              THEN Found(JSONstringify(parsed.v))
         ELSE TextOnlyLoop(am, i - 1)
    ELSE TextOnlyLoop(am, i - 1)

\* step 4: the VOICE:...|||TEXT: loop, newest first
RECURSIVE VoiceTextLoop(_, _)
VoiceTextLoop(am, i) ==
  IF i = 0 THEN NotFound
  ELSE
    LET voiceTextMatch == VoiceTextMatch(am[i].message) IN
    IF voiceTextMatch.matched
    THEN
      LET textSegment == voiceTextMatch.text
          parsedText == JSONparse(textSegment)
      IN IF ~parsedText.ok THEN Found(textSegment)
         ELSE IF Truthy(parsedText.v) /\ IsString(Get(parsedText.v, K_content))
              THEN Found(JSONstringify(parsedText.v))
         ELSE VoiceTextLoop(am, i - 1)
    ELSE VoiceTextLoop(am, i - 1)

\* does the value carry text_output.content as a string
HasTextOutputContent(v) ==
  /\ Truthy(v)
  /\ Truthy(Get(v, K_text_output))
  /\ IsString(Get(Get(v, K_text_output), K_content))

\* step 5: the legacy envelope loop, newest first
RECURSIVE LegacyEnvelopeLoop(_, _)
LegacyEnvelopeLoop(am, i) ==
  IF i = 0 THEN NotFound
  ELSE
    LET parsed == JSONparse(am[i].message) IN
    IF parsed.ok /\ HasTextOutputContent(parsed.v)
    THEN Found(JSONstringify(Get(parsed.v, K_text_output)))
    ELSE LegacyEnvelopeLoop(am, i - 1)

\* variant: when no step matches, the newest assistant message is returned as
\* it is (what the getLatestTextContent of session-view.tsx does)
InferFromMessages_rawFallback(msgs) ==
  LET am == AssistantMessages(msgs)
      n == Len(am)
  IN IF n = 0 THEN <<>>
     ELSE IF TextOnlyLoop(am, n).found THEN TextOnlyLoop(am, n).text
     ELSE IF VoiceTextLoop(am, n).found THEN VoiceTextLoop(am, n).text
     ELSE IF LegacyEnvelopeLoop(am, n).found THEN LegacyEnvelopeLoop(am, n).text
     ELSE am[n].message

\* variant: the VOICE:...|||TEXT: loop runs before the TEXT_ONLY: loop
InferFromMessages_voiceFirst(msgs) ==
  LET am == AssistantMessages(msgs)
      n == Len(am)
  IN IF n = 0 THEN <<>>
     ELSE IF VoiceTextLoop(am, n).found THEN VoiceTextLoop(am, n).text
     ELSE IF TextOnlyLoop(am, n).found THEN TextOnlyLoop(am, n).text
     ELSE IF LegacyEnvelopeLoop(am, n).found THEN LegacyEnvelopeLoop(am, n).text
     ELSE <<>>

\* the text-stream inference, steps 2 to 5
InferFromMessages(msgs) ==
  LET am == AssistantMessages(msgs)
      n == Len(am)
  IN IF n = 0 THEN <<>>
     ELSE IF TextOnlyLoop(am, n).found THEN TextOnlyLoop(am, n).text
     ELSE IF VoiceTextLoop(am, n).found THEN VoiceTextLoop(am, n).text
     ELSE IF LegacyEnvelopeLoop(am, n).found THEN LegacyEnvelopeLoop(am, n).text
     ELSE <<>>

\* variant: the text stream is consulted before the stored payload
getLatestTextContent_streamFirst(payload, msgs) ==
  IF InferFromMessages(msgs) # <<>> THEN InferFromMessages(msgs) ELSE payload

getLatestTextContent(payload, msgs) ==
  IF payload # <<>> THEN payload ELSE InferFromMessages(msgs)

\* the getLatestTextContent of components/session-view.tsx: the newest
\* assistant message only, and the raw message when nothing decodes
getLatestTextContent_sessionView(msgs) ==
  LET am == AssistantMessages(msgs) IN
  IF Len(am) = 0 THEN <<>>
  ELSE
    LET raw == am[Len(am)].message
        voiceTextMatch == VoiceTextMatch(raw)
        parsedText == JSONparse(voiceTextMatch.text)
        parsed == JSONparse(raw)
    IN IF voiceTextMatch.matched /\ ~parsedText.ok THEN voiceTextMatch.text
       ELSE IF /\ voiceTextMatch.matched
               /\ Truthy(parsedText.v)
               /\ IsString(Get(parsedText.v, K_content))
            THEN JSONstringify(parsedText.v)
       ELSE IF parsed.ok /\ HasTextOutputContent(parsed.v)
            THEN JSONstringify(Get(parsed.v, K_text_output))
       ELSE raw

(***************************************************************************)
(* SessionView.displayMessages                                             *)
(*                                                                         *)
(* A message carries its id; ids are unique, and the id of a message is    *)
(* modelled by its place in the list.  The message of a displayed entry is *)
(* a JS value, since voice_output need not be a string.                    *)
(***************************************************************************)
WithIds(msgs) ==
  [i \in 1..Len(msgs) |->
     [id |-> i, isLocal |-> msgs[i].isLocal, message |-> JStr(msgs[i].message)]]

\* the callback of .filter
IsChatMessage(m) ==
  ~(IsString(m.message) /\ StartsWith(m.message.s, TEXT_ONLY_PREFIX))

\* parsed && parsed.voice_output && parsed.text_output, after a JSON.parse
\* that did not throw
IsVoiceEnvelope(parsed) ==
  /\ parsed.ok
  /\ Truthy(parsed.v)
  /\ Truthy(Get(parsed.v, K_voice_output))
  /\ Truthy(Get(parsed.v, K_text_output))

\* the callback of .map
DisplayOf(m) ==
  IF ~IsString(m.message) THEN m
  ELSE IF VoiceTextMatch(m.message.s).matched
       THEN [m EXCEPT !.message = JStr(Trim(VoiceTextMatch(m.message.s).voice))]
  ELSE IF IsVoiceEnvelope(JSONparse(m.message.s))
       THEN [m EXCEPT !.message = Get(JSONparse(m.message.s).v, K_voice_output)]
  ELSE m

MapDisplay(ms) == [i \in 1..Len(ms) |-> DisplayOf(ms[i])]

\* variant: without the .filter (the displayMessages of session-view.tsx)
displayMessages_unfiltered(msgs) == MapDisplay(WithIds(msgs))

displayMessages(msgs) == MapDisplay(SelectSeq(WithIds(msgs), IsChatMessage))

(***************************************************************************)
(* TextOutputPanel: parseStructured, legacyParse                           *)
(***************************************************************************)
ArrayOrEmpty(v) == IF IsArray(v) THEN v.kv ELSE <<>>

\* isNull stands for the null that parseStructured returns
NullParse ==
  [isNull |-> TRUE, mainContent |-> <<>>, webSources |-> <<>>,
   youtubeVideos |-> <<>>, structured |-> FALSE]

parseStructured(raw) ==
  LET parsed == JSONparse(raw) IN
  IF ~parsed.ok THEN NullParse
  ELSE IF /\ Truthy(parsed.v)
          /\ Truthy(Get(parsed.v, K_content))
          /\ IsString(Get(parsed.v, K_content))
       THEN [isNull |-> FALSE,
             mainContent |-> Get(parsed.v, K_content).s,
             webSources |-> ArrayOrEmpty(Get(parsed.v, K_web_sources)),
             youtubeVideos |-> ArrayOrEmpty(Get(parsed.v, K_youtube_videos)),
             structured |-> TRUE]
  ELSE IF HasTextOutputContent(parsed.v)
       THEN LET to == Get(parsed.v, K_text_output) IN
            [isNull |-> FALSE,
             mainContent |-> Get(to, K_content).s,
             webSources |-> ArrayOrEmpty(Get(to, K_web_sources)),
             youtubeVideos |-> ArrayOrEmpty(Get(to, K_youtube_videos)),
             structured |-> TRUE]
  ELSE NullParse

legacyParse(content) ==
  [isNull |-> FALSE, mainContent |-> content, webSources |-> <<>>,
   youtubeVideos |-> <<>>, structured |-> FALSE]

\* const parsed = parseStructured(textContent) || legacyParse(textContent)
PanelParse(textContent) ==
  IF parseStructured(textContent).isNull
  THEN legacyParse(textContent)
  ELSE parseStructured(textContent)

(***************************************************************************)
(* TextOutputPanel: sanitizeVideos                                         *)
(*                                                                         *)
(* The patterns of cleanString are matched on tokens.  A word token is a   *)
(* maximal run of [A-Za-z0-9_], so the class [a-zA-Z0-9_-]+ is a run of    *)
(* word tokens and "-" tokens.  The words of the inputs are chosen so that *)
(* none of them has a pattern's literal word (https, youtube, target, rel, *)
(* class, alt, v, Video) as a proper part.                                 *)
(***************************************************************************)
CAMERA == "(camera)"
\* the bullet literal of formatMainContent, one token: the same character
\* sequence in the unescape pass and in the bullet pattern
BULLET == "(bullet)"
Punctuation ==
  { Q, BS, SP, NL, CAMERA, BULLET, "<", ">", "=", ".", "/", ":", "?", "-", "&", "{",
    "}", "[", "]", ",", "|", "*", "#", "%", "(", ")", "!", "'", ";" }
IsWord(tok) == tok \notin Punctuation
IsIdTok(tok) == IsWord(tok) \/ tok = "-"

At(s, i) == IF i >= 1 /\ i <= Len(s) THEN s[i] ELSE ""
MatchesAt(s, i, pat) ==
  i + Len(pat) - 1 <= Len(s) /\ SubSeq(s, i, i + Len(pat) - 1) = pat

\* the least j >= i with s[j] = tok, 0 if there is none
RECURSIVE IndexFrom(_, _, _)
IndexFrom(s, i, tok) ==
  IF i > Len(s) THEN 0
  ELSE IF s[i] = tok THEN i
  ELSE IndexFrom(s, i + 1, tok)

\* .replace(/<[^>]+>/g, ' ')
RECURSIVE StripTags(_)
StripTags(s) ==
  IF s = <<>> THEN <<>>
  ELSE IF Head(s) = "<" /\ IndexFrom(s, 2, ">") >= 3
       THEN <<SP>> \o StripTags(SubSeq(s, IndexFrom(s, 2, ">") + 1, Len(s)))
  ELSE <<Head(s)>> \o StripTags(Tail(s))

\* .replace(/target="_blank"/g, '')
RECURSIVE RemoveLiteral(_, _)
RemoveLiteral(s, pat) ==
  IF s = <<>> THEN <<>>
  ELSE IF MatchesAt(s, 1, pat) THEN RemoveLiteral(SubSeq(s, Len(pat) + 1, Len(s)), pat)
  ELSE <<Head(s)>> \o RemoveLiteral(Tail(s), pat)

\* .replace(/name="[^"]*"/g, '')
RECURSIVE RemoveQuotedAttr(_, _)
RemoveQuotedAttr(s, name) ==
  IF s = <<>> THEN <<>>
  ELSE IF MatchesAt(s, 1, <<name, "=", Q>>) /\ IndexFrom(s, 4, Q) # 0
       THEN RemoveQuotedAttr(SubSeq(s, IndexFrom(s, 4, Q) + 1, Len(s)), name)
  ELSE <<Head(s)>> \o RemoveQuotedAttr(Tail(s), name)

\* .replace(/<camera emoji>\s*Watch Diagnostic Video/g, '')
RECURSIVE RemoveWatchText(_)
RemoveWatchText(s) ==
  IF s = <<>> THEN <<>>
  ELSE IF /\ Head(s) = CAMERA
          /\ MatchesAt(s, SkipWs(s, 2), <<"Watch", SP, "Diagnostic", SP, "Video">>)
       THEN RemoveWatchText(SubSeq(s, SkipWs(s, 2) + 5, Len(s)))
  ELSE <<Head(s)>> \o RemoveWatchText(Tail(s))

\* .replace(/\s+/g, ' ')
RECURSIVE CollapseWs(_)
CollapseWs(s) ==
  IF s = <<>> THEN <<>>
  ELSE IF Head(s) \in {SP, NL}
       THEN <<SP>> \o CollapseWs(SubSeq(s, SkipWs(s, 1), Len(s)))
  ELSE <<Head(s)>> \o CollapseWs(Tail(s))

\* the length of the run of [a-zA-Z0-9_-] that starts at i
RECURSIVE IdRun(_, _)
IdRun(s, i) == IF i <= Len(s) /\ IsIdTok(s[i]) THEN 1 + IdRun(s, i + 1) ELSE 0

WatchPath == <<"youtube", ".", "com", "/", "watch", "?", "v", "=">>
ShortPath == <<"youtu", ".", "be", "/">>

\* the length of the match of
\* /https?:\/\/(?:www\.)?(?:youtube\.com\/watch\?v=ID|youtu\.be\/ID)/ at i,
\* 0 if it does not match there
VideoUrlAt(s, i) ==
  IF ~(At(s, i) \in {"http", "https"} /\ MatchesAt(s, i + 1, <<":", "/", "/">>)) THEN 0
  ELSE
    LET h == IF MatchesAt(s, i + 4, <<"www", ".">>) THEN i + 6 ELSE i + 4 IN
    IF MatchesAt(s, h, WatchPath) /\ IdRun(s, h + Len(WatchPath)) > 0
    THEN h + Len(WatchPath) + IdRun(s, h + Len(WatchPath)) - i
    ELSE IF MatchesAt(s, h, ShortPath) /\ IdRun(s, h + Len(ShortPath)) > 0
    THEN h + Len(ShortPath) + IdRun(s, h + Len(ShortPath)) - i
    ELSE 0

\* cleaned.match(...): the leftmost match from i on, <<>> if there is none
RECURSIVE FindVideoUrl(_, _)
FindVideoUrl(s, i) ==
  IF i > Len(s) THEN <<>>
  ELSE IF VideoUrlAt(s, i) > 0 THEN SubSeq(s, i, i + VideoUrlAt(s, i) - 1)
  ELSE FindVideoUrl(s, i + 1)

\* a || b on strings
OrElse(a, b) == IF a # <<>> THEN a ELSE b

\* the chain of replacements and the trim
Cleaned(s) ==
  Trim(CollapseWs(RemoveWatchText(
    RemoveQuotedAttr(RemoveQuotedAttr(RemoveQuotedAttr(
      RemoveLiteral(StripTags(s), <<"target", "=", Q, "_blank", Q>>),
      "rel"), "class"), "alt"))))

\* urlMatch ? urlMatch[0] : cleaned
MatchOrCleaned(cleaned) == OrElse(FindVideoUrl(cleaned, 1), cleaned)

\* cleanString of a JavaScript value
cleanString(v) == IF ~IsString(v) THEN <<>> ELSE MatchOrCleaned(Cleaned(v.s))

\* url.match(/(?:v=|youtu\.be\/)([a-zA-Z0-9_-]+)/): the first group of the
\* leftmost match from i on, <<>> if there is none
RECURSIVE ExtractVideoId(_, _)
ExtractVideoId(url, i) ==
  IF i > Len(url) THEN <<>>
  ELSE IF MatchesAt(url, i, <<"v", "=">>) /\ IdRun(url, i + 2) > 0
       THEN SubSeq(url, i + 2, i + 1 + IdRun(url, i + 2))
  ELSE IF MatchesAt(url, i, ShortPath) /\ IdRun(url, i + Len(ShortPath)) > 0
       THEN SubSeq(url, i + Len(ShortPath),
                   i + Len(ShortPath) - 1 + IdRun(url, i + Len(ShortPath)))
  ELSE ExtractVideoId(url, i + 1)

K_url == <<"url">>
K_title == <<"title">>
K_video_id == <<"video_id">>
K_thumbnail == <<"thumbnail">>
K_thumbnail_hq == <<"thumbnail_hq">>
K_thumbnail_max == <<"thumbnail_max">>
DefaultTitle == <<"Diagnostic", SP, "Video">>
ThumbnailOf(id) ==
  <<"https", ":", "/", "/", "img", ".", "youtube", ".", "com", "/", "vi", "/">>
    \o id \o <<"/", "mqdefault", ".", "jpg">>

\* the characters a value has inside a template literal or as a string
StringOf(v) == IF v.t \in {"str", "num", "bool"} THEN v.s ELSE <<"[object]">>

\* v.video_id || '', and the id taken from the url when that is empty
VideoIdOf(given, url) ==
  IF Truthy(given) THEN StringOf(given)
  ELSE IF url # <<>> THEN ExtractVideoId(url, 1)
  ELSE <<>>

\* the object the .map step returns
VideoRecord(title, url, video_id) ==
  [title |-> OrElse(title, DefaultTitle),
   url |-> url,
   thumbnail |-> ThumbnailOf(OrElse(video_id, <<"default">>)),
   video_id |-> video_id]

\* variant: a thumbnail passed in is kept
VideoOfCleaned_keepThumb(v, title, url) ==
  IF HasKey(v, K_thumbnail)
  THEN [VideoRecord(title, url, VideoIdOf(Get(v, K_video_id), url))
          EXCEPT !.thumbnail = StringOf(Get(v, K_thumbnail))]
  ELSE VideoRecord(title, url, VideoIdOf(Get(v, K_video_id), url))

VideoOfCleaned(v, title, url) ==
  VideoRecord(title, url, VideoIdOf(Get(v, K_video_id), url))

\* rawTitle || 'Diagnostic Video'
TitleOrDefault(rawTitle) == IF Truthy(rawTitle) THEN rawTitle ELSE JStr(DefaultTitle)

\* the .map step for one raw entry
CleanVideo(v) ==
  VideoOfCleaned(v, cleanString(TitleOrDefault(Get(v, K_title))),
                 cleanString(Get(v, K_url)))

\* v.url.includes('youtube')
IncludesYoutube(url) == \E i \in 1..Len(url) : url[i] = "youtube"

\* variant: the filter asks for a url only
IsValidVideo_urlOnly(v) == v.url # <<>>

\* the last .filter step
IsValidVideo(v) == v.url # <<>> /\ v.video_id # <<>> /\ IncludesYoutube(v.url)

RECURSIVE MapClean(_)
MapClean(arr) ==
  IF arr = <<>> THEN <<>>
  ELSE IF Truthy(Head(arr)) /\ IsObjectType(Head(arr))
       THEN <<CleanVideo(Head(arr))>> \o MapClean(Tail(arr))
  ELSE MapClean(Tail(arr))

\* variant: the valid entries in reverse order
sanitizeVideos_reversed(arr) ==
  [i \in 1..Len(SelectSeq(MapClean(arr), IsValidVideo)) |->
     SelectSeq(MapClean(arr), IsValidVideo)
       [Len(SelectSeq(MapClean(arr), IsValidVideo)) + 1 - i]]

sanitizeVideos(arr) == SelectSeq(MapClean(arr), IsValidVideo)

\* which of the sections appear
Sections(mainContent, webSources, youtubeVideos) ==
  [mainContent |-> mainContent,
   webSources |-> webSources,
   youtubeVideos |-> youtubeVideos,
   showsMain |-> mainContent # <<>>,
   showsSources |-> Len(webSources) > 0,
   showsVideos |-> Len(youtubeVideos) > 0]

SectionsOf(parsed) ==
  Sections(parsed.mainContent, parsed.webSources, sanitizeVideos(parsed.youtubeVideos))

\* what the panel renders for textContent
PanelView(textContent) == SectionsOf(PanelParse(textContent))

(***************************************************************************)
(* TextOutputPanel: formatMainContent                                      *)
(*                                                                         *)
(* The HTML it writes keeps its tags and the attributes that carry a url;  *)
(* each class list is shortened to one word and the other fixed attributes *)
(* (target, rel, alt, the svg path) are left out.                          *)
(***************************************************************************)
Tag(name, cls) == <<"<", name, SP, "class", "=", Q, cls, Q, ">">>
EndTag(name) == <<"<", "/", name, ">">>

\* the least element of a set of positions, 0 if it is empty
FirstOf(S) == IF S = {} THEN 0 ELSE CHOOSE i \in S : \A j \in S : i <= j

\* s.replace(/pat/g, rep) for a literal pat: from match to match
RECURSIVE ReplaceAll(_, _, _)
ReplaceAll(s, pat, rep) ==
  LET k == FirstOf({i \in 1..Len(s) : MatchesAt(s, i, pat)}) IN
  IF k = 0 THEN s
  ELSE SubSeq(s, 1, k - 1) \o rep
         \o ReplaceAll(SubSeq(s, k + Len(pat), Len(s)), pat, rep)

\* the escaped sequences that are decoded first
decodedContent(content) ==
  ReplaceAll(ReplaceAll(ReplaceAll(ReplaceAll(content,
    <<BS, "n">>, <<NL>>), <<BS, "u2022">>, <<BULLET>>), <<BS, Q>>, <<Q>>),
    <<BS, BS>>, <<BS>>)

\* the length of the match of /\*\*([^*]+):\*\*/ at i, 0 if none: the run of
\* [^*] ends at the next star, so its last character is the colon
HeaderLen(s, i) ==
  IF ~MatchesAt(s, i, <<"*", "*">>) THEN 0
  ELSE LET j == FirstOf({q \in (i + 2)..Len(s) : s[q] = "*"}) IN
       IF j >= i + 4 /\ s[j - 1] = ":" /\ At(s, j + 1) = "*" THEN j + 2 - i ELSE 0

HeaderBlock(name) == Tag("h3", "header") \o name \o EndTag("h3")

RECURSIVE FormatHeaders(_)
FormatHeaders(s) ==
  LET k == FirstOf({i \in 1..Len(s) : HeaderLen(s, i) > 0}) IN
  IF k = 0 THEN s
  ELSE SubSeq(s, 1, k - 1)
         \o HeaderBlock(SubSeq(s, k + 2, k + HeaderLen(s, k) - 4))
         \o FormatHeaders(SubSeq(s, k + HeaderLen(s, k), Len(s)))

\* the index of the first newline from i on, Len(s) + 1 if there is none
LineEnd(s, i) ==
  LET e == FirstOf({q \in i..Len(s) : s[q] = NL}) IN IF e = 0 THEN Len(s) + 1 ELSE e

CategoryMarker == <<"*", "*", "Category", ":", "*", "*">>

\* where the group of /\*\*Category:\*\*\s*([^\n]+)/ starts for a match at
\* i, 0 if there is no match: after the white space, or at the last blank of
\* it when nothing but line ends follow
CategoryGroupStart(s, i) ==
  IF ~MatchesAt(s, i, CategoryMarker) THEN 0
  ELSE IF SkipWs(s, i + 6) <= Len(s) THEN SkipWs(s, i + 6)
  ELSE FirstOf({q \in (i + 6)..Len(s) :
                  s[q] # NL /\ \A r \in (q + 1)..Len(s) : s[r] = NL})

CategoryBlock(value) ==
  Tag("div", "category") \o Tag("strong", "label") \o <<"Category", ":">>
    \o EndTag("strong") \o <<SP>> \o Tag("span", "value") \o value
    \o EndTag("span") \o EndTag("div")

RECURSIVE FormatCategory(_)
FormatCategory(s) ==
  LET k == FirstOf({i \in 1..Len(s) : CategoryGroupStart(s, i) > 0})
      g == CategoryGroupStart(s, k)
  IN IF k = 0 THEN s
     ELSE SubSeq(s, 1, k - 1)
            \o CategoryBlock(SubSeq(s, g, LineEnd(s, g) - 1))
            \o FormatCategory(SubSeq(s, LineEnd(s, g), Len(s)))

BulletBlock(item) ==
  Tag("div", "bullet") \o Tag("span", "dot") \o <<BULLET>> \o EndTag("span")
    \o Tag("span", "item") \o item \o EndTag("span") \o EndTag("div")

\* /^(bullet) (.+)$/gm on one line
FormatBulletLine(line) ==
  IF Len(line) >= 3 /\ line[1] = BULLET /\ line[2] = SP
  THEN BulletBlock(SubSeq(line, 3, Len(line)))
  ELSE line

\* line by line, from the line that starts at i
RECURSIVE FormatBullets(_, _)
FormatBullets(s, i) ==
  IF i > Len(s) THEN <<>>
  ELSE FormatBulletLine(SubSeq(s, i, LineEnd(s, i) - 1))
         \o (IF LineEnd(s, i) <= Len(s)
             THEN <<NL>> \o FormatBullets(s, LineEnd(s, i) + 1)
             ELSE <<>>)

\* the length of the run of \S that starts at i
NonSpaceRun(s, i) ==
  LET e == FirstOf({q \in i..Len(s) : s[q] \in {SP, NL}}) IN
  IF e = 0 THEN Len(s) + 1 - i ELSE e - i

ThumbTail == <<"/", "mqdefault", ".", "jpg">>
DefaultThumb ==
  <<"https", ":", "/", "/", "img", ".", "youtube", ".", "com", "/", "vi", "/",
    "default", "/", "default", ".", "jpg">>

\* the block the replace callback returns for a match and its video id
PreviewBlock(match, videoId) ==
  Tag("div", "preview") \o <<NL>>
    \o <<"<", "a", SP, "href", "=", Q>> \o match \o <<Q, SP, "class", "=", Q, "group", Q, ">", NL>>
    \o <<"<", "img", SP, "src", "=", Q>>
    \o <<"https", ":", "/", "/", "img", ".", "youtube", ".", "com", "/", "vi", "/">>
    \o videoId \o ThumbTail \o <<Q, NL, SP>>
    \o <<"onerror", "=", Q, "this", ".", "src", "=", "'">> \o DefaultThumb \o <<"'", Q, "/", ">", NL>>
    \o Tag("p", "title") \o <<NL, CAMERA, SP, "Watch", SP, "Diagnostic", SP, "Video", NL>>
    \o EndTag("p") \o <<NL>>
    \o Tag("p", "caption") \o match \o EndTag("p") \o <<NL>>
    \o EndTag("a") \o <<NL>> \o EndTag("div")

\* the length of the match of the YouTube pattern of line 203 at i: the url
\* up to its id, then the rest of the run of \S
InlineVideoLen(s, i) ==
  IF VideoUrlAt(s, i) = 0 THEN 0
  ELSE VideoUrlAt(s, i) + NonSpaceRun(s, i + VideoUrlAt(s, i))

RECURSIVE FormatVideoUrls(_)
FormatVideoUrls(s) ==
  LET k == FirstOf({i \in 1..Len(s) : InlineVideoLen(s, i) > 0}) IN
  IF k = 0 THEN s
  ELSE SubSeq(s, 1, k - 1)
         \o PreviewBlock(SubSeq(s, k, k + InlineVideoLen(s, k) - 1),
                         ExtractVideoId(SubSeq(s, k, k + VideoUrlAt(s, k) - 1), 1))
         \o FormatVideoUrls(SubSeq(s, k + InlineVideoLen(s, k), Len(s)))

\* the length of the run from i on of word tokens and the tokens of extra
RECURSIVE ClassRun(_, _, _)
ClassRun(s, i, extra) ==
  IF i <= Len(s) /\ (IsWord(s[i]) \/ s[i] \in extra)
  THEN 1 + ClassRun(s, i + 1, extra)
  ELSE 0

DigitToks == NumberToks \cup {"8080"}

\* (?:\:[0-9]+)? at i
PortLen(s, i) == IF At(s, i) = ":" /\ At(s, i + 1) \in DigitToks THEN 2 ELSE 0

\* (?:lead(?:[class])*)? at i
PartLen(s, i, lead, extra) ==
  IF At(s, i) = lead THEN 1 + ClassRun(s, i + 1, extra) ELSE 0

\* the url pattern after the host, from i on: port, path, query, fragment
UrlTailLen(s, i) ==
  PortLen(s, i)
    + PartLen(s, i + PortLen(s, i), "/", {"/", "."})
    + PartLen(s, i + PortLen(s, i) + PartLen(s, i + PortLen(s, i), "/", {"/", "."}),
              "?", {"&", "=", "%", ".", "-"})

FragmentLen(s, i) == PartLen(s, i, "#", {".", "-"})

\* variant: the lookahead without its optional www.
IsVideoHostAhead_noWww(s, i) ==
  \/ MatchesAt(s, i, WatchPath)
  \/ MatchesAt(s, i, ShortPath)

\* the negative lookahead of line 236, at the first character of the host
IsVideoHostAhead(s, i) ==
  \/ MatchesAt(s, i, WatchPath)
  \/ MatchesAt(s, i, ShortPath)
  \/ MatchesAt(s, i, <<"www", ".">> \o WatchPath)
  \/ MatchesAt(s, i, <<"www", ".">> \o ShortPath)

\* the length of the match of the generic url pattern at i
GenericUrlLen(s, i, skipVideo) ==
  IF ~(At(s, i) \in {"http", "https"} /\ MatchesAt(s, i + 1, <<":", "/", "/">>)) THEN 0
  ELSE IF skipVideo /\ IsVideoHostAhead(s, i + 4) THEN 0
  ELSE LET host == ClassRun(s, i + 4, {"-", "."})
           tail == UrlTailLen(s, i + 4 + host)
       IN IF host = 0 THEN 0
          ELSE 4 + host + tail + FragmentLen(s, i + 4 + host + tail)

\* the hyperlink that replaces a url
Anchor(url) ==
  <<"<", "a", SP, "href", "=", Q>> \o url \o <<Q, SP, "class", "=", Q, "link", Q, ">">>
    \o Tag("svg", "icon") \o EndTag("svg") \o url \o EndTag("a")

RECURSIVE Linkify(_, _)
Linkify(s, skipVideo) ==
  LET k == FirstOf({i \in 1..Len(s) : GenericUrlLen(s, i, skipVideo) > 0})
      n == GenericUrlLen(s, k, skipVideo)
  IN IF k = 0 THEN s
     ELSE SubSeq(s, 1, k - 1) \o Anchor(SubSeq(s, k, k + n - 1))
            \o Linkify(SubSeq(s, k + n, Len(s)), skipVideo)

\* .replace(/\n\n/g, ...).replace(/\n/g, '<br>')
LineBreaks(s) ==
  ReplaceAll(ReplaceAll(s, <<NL, NL>>, Tag("div", "my-4") \o EndTag("div")),
             <<NL>>, <<"<", "br", ">">>)

\* headers, category lines and bullets
formattedContent(content) ==
  FormatBullets(FormatCategory(FormatHeaders(decodedContent(content))), 1)

\* variant: the preview pass runs whatever hasStructuredVideos is
formatMainContent_alwaysPreview(content, hasStructuredVideos) ==
  LineBreaks(
    Linkify(FormatVideoUrls(formattedContent(content)), hasStructuredVideos))

formatMainContent(content, hasStructuredVideos) ==
  LineBreaks(
    Linkify(IF hasStructuredVideos THEN formattedContent(content)
            ELSE FormatVideoUrls(formattedContent(content)),
            hasStructuredVideos))

\* the html of the main section the panel renders for textContent:
\* {mainContent && ... formatMainContent(mainContent, youtubeVideos.length > 0)}
MainHtml(textContent) ==
  LET view == PanelView(textContent) IN
  IF view.showsMain
  THEN formatMainContent(view.mainContent, view.showsVideos)
  ELSE <<>>

(***************************************************************************)
(* useDiagnosticWebSocket: handleMessage                                   *)
(***************************************************************************)
K_data == <<"data">>

NoCall == [called |-> FALSE, arg |-> JUndef]
Call(v) == [called |-> TRUE, arg |-> v]

\* the `data` that handleMessage decodes from the event; ok is FALSE where
\* JSON.parse throws into the outer catch
DecodeEvent(event) ==
  IF HasKey(event, K_data)
  THEN LET eventData == Get(event, K_data) IN
       IF IsString(eventData) THEN JSONparse(eventData.s)
       ELSE Parsed(eventData, 0)
  ELSE IF IsString(event) THEN JSONparse(event.s)
  ELSE Parsed(event, 0)

\* the inner try: a string payload is parsed, and passed raw when
\* JSON.parse throws
ParsedOrRaw(parsed, payload) == IF parsed.ok THEN Call(parsed.v) ELSE Call(payload)

DeliverPayload(payload) ==
  IF IsString(payload) THEN ParsedOrRaw(JSONparse(payload.s), payload)
  ELSE Call(payload)

\* variant: the type of the message is not looked at
IsDiagnosticText_anyType(data) == Truthy(data) /\ IsObjectType(data)

\* data && typeof data === 'object' && 'type' in data && data.type === ...
IsDiagnosticText(data) ==
  /\ Truthy(data)
  /\ IsObjectType(data)
  /\ HasKey(data, K_type)
  /\ Get(data, K_type) = JStr(DiagnosticTextType)

DispatchData(data) ==
  IF ~data.ok THEN NoCall
  ELSE IF IsDiagnosticText(data.v) THEN DeliverPayload(Get(data.v, K_payload))
  ELSE NoCall

\* the call of onDiagnosticText that one event makes, if any
handleMessage(event) == DispatchData(DecodeEvent(event))

\* catch (e) { }: what was thrown inside the try goes no further
IgnoreError(thrown) == FALSE

\* one run of handleMessage: the call it makes, and whether an exception
\* leaves the handler
RunHandleMessage(event) ==
  [result |-> handleMessage(event), escaped |-> IgnoreError(~DecodeEvent(event).ok)]

\* useDiagnosticWebSocketDirect: JSON.parse(event.data) takes the string of
\* its argument; 'undefined' and '[object Object]' are no JSON, 'null' is
DecodeDirect(event) ==
  LET eventData == Get(event, K_data) IN
  IF IsString(eventData) THEN JSONparse(eventData.s)
  ELSE IF eventData = JNull THEN Parsed(JNull, 0)
  ELSE ParseFailed

\* data.type throws TypeError on null
TypeReadThrows(data) == data.ok /\ data.v.t \in {"null", "undefined"}

\* data.type === 'diagnostic:text'
IsDiagnosticTextDirect(data) == Get(data, K_type) = JStr(DiagnosticTextType)

\* the payload of the direct handler: a string is parsed, and a throw of
\* JSON.parse goes to the catch with no call made
DeliverPayloadDirect(payload) ==
  IF ~IsString(payload) THEN Call(payload)
  ELSE IF JSONparse(payload.s).ok THEN Call(JSONparse(payload.s).v)
  ELSE NoCall

PayloadParseThrows(data) ==
  /\ IsDiagnosticTextDirect(data)
  /\ IsString(Get(data, K_payload))
  /\ ~JSONparse(Get(data, K_payload).s).ok

\* the handleMessage of useDiagnosticWebSocketDirect
handleMessageDirect(event) ==
  LET data == DecodeDirect(event) IN
  IF ~data.ok \/ TypeReadThrows(data) THEN NoCall
  ELSE IF IsDiagnosticTextDirect(data.v) THEN DeliverPayloadDirect(Get(data.v, K_payload))
  ELSE NoCall

RunHandleMessageDirect(event) ==
  LET data == DecodeDirect(event) IN
  [result |-> handleMessageDirect(event),
   escaped |-> IgnoreError(\/ ~data.ok
                          \/ TypeReadThrows(data)
                          \/ PayloadParseThrows(data.v))]

\* handleDiagnosticTextFromWebSocket: the string handed to
\* setDiagnosticTextPayload.  JSON.stringify(undefined) is undefined, which
\* the component reads as it reads '' (falsy, nothing stored).
handleDiagnosticTextFromWebSocket(payload) ==
  IF payload.t = "undefined" THEN <<>> ELSE JSONstringify(payload)

\* the adapter branch of retrieveDiagnosticTextPayload: the string stored
\* for the value get_diagnostic_text_payload returned
AdapterStored(payload) ==
  IF JSONparse(payload).ok THEN JSONstringify(JSONparse(payload).v) ELSE payload

(***************************************************************************)
(* Inputs                                                                  *)
(***************************************************************************)
MaxMsgs == 2
MaxDeliveries == 2
MaxSetups == 2

Rooms == {1, 2}
EngineKinds == {"ws", "client", "none"}

ReportOf(c) == JObj(<<KV(K_content, JStr(c))>>)
EncTextOnly(t) == TEXT_ONLY_PREFIX \o t
EncVoiceText(v, t) == VOICE_PREFIX \o v \o TEXT_SEPARATOR \o t
EncEnvelope(v, obj) ==
  JSONstringify(JObj(<<KV(K_voice_output, JStr(v)), KV(K_text_output, obj)>>))
Msg(local, text) == [isLocal |-> local, message |-> text]

\* what the agent and the user say in the session
AgentTexts ==
  { EncTextOnly(JSONstringify(ReportOf(<<"Brakes">>))),
    EncVoiceText(<<"Hi">>, JSONstringify(ReportOf(<<"Engine">>))) }
UserTexts == { <<"help">> }

EventWithData(str) == JObj(<<KV(K_data, JStr(str))>>)
DiagnosticMessage(payload) ==
  JSONstringify(JObj(<<KV(K_type, JStr(DiagnosticTextType)), KV(K_payload, payload)>>))

\* what arrives on the socket
SocketEvents ==
  { EventWithData(DiagnosticMessage(ReportOf(<<"Clutch">>))),
    EventWithData(DiagnosticMessage(JStr(<<"oops">>))),
    EventWithData(JSONstringify(JObj(<<KV(K_type, JStr(<<"ping">>))>>))) }

\* the events a message handler is given: object events with string data
\* (non-JSON text, JSON null, another type, a diagnostic message with an
\* object payload, a string payload that is JSON, one that is not, and no
\* payload), with object data, with no data, and string events
MaxCalls == 2

HandlerEvents ==
  SocketEvents \cup
  { EventWithData(<<"hello">>),
    EventWithData(<<"null">>),
    EventWithData(DiagnosticMessage(JStr(JSONstringify(ReportOf(<<"Clutch">>))))),
    EventWithData(JSONstringify(JObj(<<KV(K_type, JStr(DiagnosticTextType))>>))),
    JObj(<<KV(K_data, JObj(<<KV(K_type, JStr(DiagnosticTextType)),
                             KV(K_payload, ReportOf(<<"Gearbox">>))>>))>>),
    JObj(<<KV(K_data, JNull)>>),
    JObj(<<>>),
    JObj(<<KV(K_type, JStr(DiagnosticTextType)), KV(K_payload, ReportOf(<<"Axle">>))>>),
    JStr(<<"hello">>),
    JStr(DiagnosticMessage(ReportOf(<<"Pump">>))) }

\* handleMessage on each of them
Handled == [ev \in SocketEvents |-> handleMessage(ev)]

\* window.__llmAdapter at the moment the fallback looks: absent, or what
\* get_diagnostic_text_payload returns (<<>> for null)
AdapterResults ==
  { [present |-> FALSE, value |-> <<>>],
    [present |-> TRUE, value |-> <<>>],
    [present |-> TRUE, value |-> JSONstringify(ReportOf(<<"Adapter">>))] }

(***************************************************************************)
(* State                                                                   *)
(***************************************************************************)
VARIABLES
  engineKind,             \* what room.engine exposes: _ws, client or neither
  room,                   \* the room of the context
  mounted,                \* is a SessionView mounted
  instance,               \* which component instance it is
  handlerRef,             \* messageHandlerRef.current (0 for null)
  setups,                 \* runs of setupWebSocketListener so far
  listeners,              \* per room, the message listeners registered
  messages,               \* the chat and transcription messages
  diagnosticTextPayload,  \* the component's stored payload
  rendered,               \* the state the last render saw
  timer,                  \* the 500 ms fallback timer and its closure
  panelText,              \* textContent handed to TextOutputPanel
  delivered,              \* socket events delivered so far
  storedBy,               \* who stored diagnosticTextPayload, and in which turn
  producedInTurn,         \* payloads stored (to a new value) in this agent turn
  lastFallback,           \* what the last firing of the fallback timer did
  lastDelivery,           \* what the last socket event did
  sessionStarted,         \* the sessionStarted prop
  agentState,             \* the state useVoiceAssistant reports
  renderedSession,        \* sessionStarted and agentState as the last render saw them
  sessionTimeout,         \* the 10 s timer, the time it has left and its closure
  sessionEnd,             \* what the last firing of the 10 s timer did
  handlerEvent,           \* the event last handed to a message handler
  callbackLog,            \* the calls of onDiagnosticText so far
  selectedVehicle,        \* VehicleSelector state
  selectedModel,
  isVehicleDropdownOpen,
  isModelDropdownOpen,
  vehicleChanges,         \* the calls of onVehicleChange so far
  adapterWindow,          \* the global object getDiagnosticTextFromAdapter reads
  adapterPromise          \* the promise getDiagnosticTextFromAdapter returned

timeoutVars == <<sessionStarted, agentState, renderedSession, sessionTimeout, sessionEnd>>
handlerVars == <<handlerEvent, callbackLog>>
selectorVars ==
  <<selectedVehicle, selectedModel, isVehicleDropdownOpen, isModelDropdownOpen,
    vehicleChanges>>
adapterVars == <<adapterWindow, adapterPromise>>
viewVars ==
  <<engineKind, room, mounted, instance, handlerRef, setups, listeners, messages,
    diagnosticTextPayload, rendered, timer, panelText, delivered, storedBy,
    producedInTurn, lastFallback, lastDelivery>>

\* the state of the parts that stand beside SessionView
otherVars == <<handlerVars, selectorVars, adapterVars>>

vars ==
  <<engineKind, room, mounted, instance, handlerRef, setups, listeners, messages,
    diagnosticTextPayload, rendered, timer, panelText, delivered, storedBy,
    producedInTurn, lastFallback, lastDelivery, timeoutVars, otherVars>>

NoTimer == [armed |-> FALSE, closure |-> <<>>]
NotStored == [by |-> "none", turn |-> 0]
\* turn is the agent turn of the render that set the timer which fired
NoFallback ==
  [fired |-> FALSE, stored |-> "none", calledAdapter |-> FALSE, changed |-> FALSE,
   turn |-> 0]
NoDelivery == [calls |-> 0, stale |-> 0, stored |-> FALSE, arg |-> JUndef]

\* the agent turn: the number of agent messages so far
Turn(msgs) == Len(AssistantMessages(msgs))

\* the AgentState values of the voice assistant
AgentStates ==
  {"disconnected", "connecting", "initializing", "listening", "thinking", "speaking"}

isAgentAvailable(state) == state \in {"listening", "thinking", "speaking"}

\* the 10 s of the session timeout, in ticks of the clock
TimeoutTicks == 2

NoSessionTimeout == [armed |-> FALSE, left |-> 0, agentState |-> "disconnected"]
NotEnded ==
  [fired |-> FALSE, disconnected |-> FALSE, reason |-> "", agentState |-> "disconnected",
   sessionStarted |-> FALSE]
NotJoinedReason == "Agent did not join the room. "
NotInitializedReason == "Agent connected but did not complete initializing. "

\* getDiagnosticTextFromAdapter has not been called yet
NoPromise ==
  [state |-> "none", value |-> JUndef, window |-> JUndef,
   settles |-> [state |-> "none", value |-> JUndef]]

\* no message handler has run yet
NoHandled ==
  [event |-> JUndef, by |-> "none", result |-> NoCall, escaped |-> FALSE]

\* the deps of the timeout effect that are state of this model
SessionDeps == [sessionStarted |-> sessionStarted, agentState |-> agentState]
NoSessionDeps == [sessionStarted |-> FALSE, agentState |-> "disconnected"]

\* nothing has happened yet in the session timeout, the message handlers,
\* the vehicle selector and the adapter lookup
SessionIdle ==
  /\ sessionStarted = FALSE
  /\ agentState = "disconnected"
  /\ renderedSession = NoSessionDeps
  /\ sessionTimeout = NoSessionTimeout
  /\ sessionEnd = NotEnded

OthersIdle ==
  /\ handlerEvent = NoHandled
  /\ callbackLog = <<>>
  /\ selectedVehicle = ""
  /\ selectedModel = ""
  /\ isVehicleDropdownOpen = FALSE
  /\ isModelDropdownOpen = FALSE
  /\ vehicleChanges = <<>>
  /\ adapterWindow = JUndef
  /\ adapterPromise = NoPromise

Init ==
  /\ engineKind \in EngineKinds
  /\ room = 1
  /\ mounted = FALSE
  /\ instance = 0
  /\ handlerRef = 0
  /\ setups = 0
  /\ listeners = [r \in Rooms |-> <<>>]
  /\ messages = <<>>
  /\ diagnosticTextPayload = <<>>
  /\ rendered = [payload |-> <<>>, messages |-> <<>>]
  /\ timer = NoTimer
  /\ panelText = <<>>
  /\ delivered = 0
  /\ storedBy = NotStored
  /\ producedInTurn = 0
  /\ lastFallback = NoFallback
  /\ lastDelivery = NoDelivery
  /\ SessionIdle
  /\ OthersIdle

(***************************************************************************)
(* The effects                                                             *)
(***************************************************************************)
\* setupWebSocketListener: attach handler h of component instance inst
SetupListener(ls, r, h, inst) ==
  IF engineKind \in {"ws", "client"}
  THEN [ls EXCEPT ![r] = Append(@, [h |-> h, inst |-> inst])]
  ELSE ls

\* the cleanup it returns.  On a direct socket removeEventListener is given
\* a new arrow function, which is no registered listener: nothing is removed.
CleanupListener(ls, r) ==
  IF handlerRef # 0 /\ engineKind = "client"
  THEN [ls EXCEPT ![r] = SelectSeq(@, LAMBDA l : l.h # handlerRef)]
  ELSE ls

\* the fallback effect, deps [messages, retrieveDiagnosticTextPayload]: when a
\* dep changed the old timer is cleared, and a new one is set if the latest
\* message is not local.  retrieveDiagnosticTextPayload changes with the
\* rendered diagnosticTextPayload, which its closure captures.
FallbackEffect(prev, payload, msgs, old) ==
  IF prev.messages = msgs /\ prev.payload = payload THEN old
  ELSE IF Len(msgs) > 0 /\ ~msgs[Len(msgs)].isLocal
       THEN [armed |-> TRUE, closure |-> payload]
  ELSE NoTimer

\* the timeout effect, deps [agentState, sessionStarted, room]: when a dep
\* changed the old timer is cleared, and a new 10 s timer is set if the
\* session has started; its callback captures the agentState of this render
TimeoutEffect(depsChanged, old) ==
  IF ~depsChanged THEN old
  ELSE IF sessionStarted
       THEN [armed |-> TRUE, left |-> TimeoutTicks, agentState |-> agentState]
  ELSE NoSessionTimeout

\* a render and its commit; roomChanged tells whether the room is a new one
RenderCommitIn(roomChanged) ==
  /\ rendered' = [payload |-> diagnosticTextPayload, messages |-> messages]
  /\ panelText' = getLatestTextContent(diagnosticTextPayload, messages)
  /\ timer' = FallbackEffect(rendered, diagnosticTextPayload, messages, timer)
  /\ renderedSession' = SessionDeps
  /\ sessionTimeout' =
       TimeoutEffect(roomChanged \/ renderedSession # SessionDeps, sessionTimeout)

RenderCommit == RenderCommitIn(FALSE)

(***************************************************************************)
(* Actions                                                                 *)
(***************************************************************************)
\* SessionView mounts: first render, then both effects run
Mount ==
  /\ ~mounted
  /\ setups < MaxSetups
  /\ mounted' = TRUE
  /\ instance' = instance + 1
  /\ setups' = setups + 1
  /\ handlerRef' = setups + 1
  /\ listeners' = SetupListener(listeners, room, setups + 1, instance + 1)
  /\ diagnosticTextPayload' = <<>>
  /\ rendered' = [payload |-> <<>>, messages |-> messages]
  /\ panelText' = getLatestTextContent(<<>>, messages)
  /\ timer' = IF Len(messages) > 0 /\ ~messages[Len(messages)].isLocal
              THEN [armed |-> TRUE, closure |-> <<>>]
              ELSE NoTimer
  /\ renderedSession' = SessionDeps
  /\ sessionTimeout' = TimeoutEffect(TRUE, sessionTimeout)
  /\ UNCHANGED <<engineKind, room, messages, delivered, storedBy, producedInTurn,
                 lastFallback, lastDelivery, sessionStarted, agentState, sessionEnd,
                 otherVars>>

\* SessionView unmounts: both effects clean up, the component state is gone
Unmount ==
  /\ mounted
  /\ mounted' = FALSE
  /\ listeners' = CleanupListener(listeners, room)
  /\ handlerRef' = 0
  /\ timer' = NoTimer
  /\ diagnosticTextPayload' = <<>>
  /\ rendered' = [payload |-> <<>>, messages |-> <<>>]
  /\ panelText' = <<>>
  /\ storedBy' = NotStored
  /\ producedInTurn' = 0
  /\ lastFallback' = NoFallback
  /\ renderedSession' = NoSessionDeps
  /\ sessionTimeout' = NoSessionTimeout
  /\ UNCHANGED <<engineKind, room, instance, setups, messages, delivered, lastDelivery,
                 sessionStarted, agentState, sessionEnd, otherVars>>

\* the context hands the component another room: re-render, the listener
\* effect cleans up on the old engine and sets up on the new one
RoomChange ==
  /\ mounted
  /\ setups < MaxSetups
  /\ \E r \in Rooms \ {room} :
       /\ room' = r
       /\ listeners' =
            SetupListener(CleanupListener(listeners, room), r, setups + 1, instance)
  /\ handlerRef' = setups + 1
  /\ setups' = setups + 1
  /\ RenderCommitIn(TRUE)
  /\ UNCHANGED <<engineKind, mounted, instance, messages, diagnosticTextPayload,
                 delivered, storedBy, producedInTurn, lastFallback, lastDelivery,
                 sessionStarted, agentState, sessionEnd, otherVars>>

\* useChatAndTranscription yields a new messages array
NewMessage ==
  /\ mounted
  /\ Len(messages) < MaxMsgs
  /\ \E m \in {Msg(FALSE, t) : t \in AgentTexts} \cup {Msg(TRUE, t) : t \in UserTexts} :
       /\ messages' = Append(messages, m)
       /\ producedInTurn' = IF m.isLocal THEN producedInTurn ELSE 0
  /\ UNCHANGED <<engineKind, room, mounted, instance, handlerRef, setups, listeners,
                 diagnosticTextPayload, rendered, timer, panelText, delivered,
                 storedBy, lastFallback, lastDelivery, timeoutVars, otherVars>>

\* React renders the component after a state change
RenderPending ==
  /\ mounted
  /\ \/ rendered.payload # diagnosticTextPayload
     \/ rendered.messages # messages
     \/ renderedSession # SessionDeps

Render ==
  /\ RenderPending
  /\ RenderCommit
  /\ UNCHANGED <<engineKind, room, mounted, instance, handlerRef, setups, listeners,
                 messages, diagnosticTextPayload, delivered, storedBy, producedInTurn,
                 lastFallback, lastDelivery, sessionStarted, agentState, sessionEnd,
                 otherVars>>

\* a message event on the socket of room r: every registered listener runs
\* handleMessage; a listener of an unmounted instance sets no state
SocketMessage ==
  /\ delivered < MaxDeliveries
  /\ delivered' = delivered + 1
  /\ \E r \in Rooms, ev \in SocketEvents :
       LET res == Handled[ev]
           ls == listeners[r]
           live == Cardinality({i \in 1..Len(ls) : mounted /\ ls[i].inst = instance})
           stale == Cardinality({i \in 1..Len(ls) : ~(mounted /\ ls[i].h = handlerRef)})
       IN /\ lastDelivery' =
               IF res.called
               THEN [calls |-> Len(ls), stale |-> stale, stored |-> live > 0,
                     arg |-> res.arg]
               ELSE NoDelivery
          /\ IF res.called /\ live > 0
             THEN /\ diagnosticTextPayload' = handleDiagnosticTextFromWebSocket(res.arg)
                  /\ storedBy' = [by |-> "side", turn |-> Turn(messages)]
                  /\ producedInTurn' =
                       IF handleDiagnosticTextFromWebSocket(res.arg) # diagnosticTextPayload
                       THEN producedInTurn + 1
                       ELSE producedInTurn
             ELSE UNCHANGED <<diagnosticTextPayload, storedBy, producedInTurn>>
  /\ UNCHANGED <<engineKind, room, mounted, instance, handlerRef, setups, listeners,
                 messages, rendered, timer, panelText, lastFallback, timeoutVars,
                 otherVars>>

\* the fallback timer fires: retrieveDiagnosticTextPayload runs with the
\* diagnosticTextPayload its closure captured
FallbackTimerFires ==
  /\ mounted
  /\ timer.armed
  /\ timer' = NoTimer
  /\ \E a \in AdapterResults :
       LET calls == timer.closure = <<>> /\ a.present
           sets == calls /\ a.value # <<>>
           after == IF sets THEN AdapterStored(a.value) ELSE diagnosticTextPayload
       IN /\ diagnosticTextPayload' = after
          /\ storedBy' = IF sets THEN [by |-> "adapter", turn |-> Turn(messages)]
                         ELSE storedBy
          /\ producedInTurn' = IF after # diagnosticTextPayload
                                THEN producedInTurn + 1
                                ELSE producedInTurn
          /\ lastFallback' = [fired |-> TRUE, stored |-> storedBy.by,
                              calledAdapter |-> calls,
                              changed |-> after # diagnosticTextPayload,
                              turn |-> Turn(rendered.messages)]
  /\ UNCHANGED <<engineKind, room, mounted, instance, handlerRef, setups, listeners,
                 messages, rendered, panelText, delivered, lastDelivery, timeoutVars,
                 otherVars>>

\* the parent starts or stops the session: the sessionStarted prop changes
SessionStartedChanges ==
  /\ mounted
  /\ sessionStarted' = ~sessionStarted
  /\ UNCHANGED <<viewVars, agentState, renderedSession, sessionTimeout, sessionEnd,
                 otherVars>>

\* useVoiceAssistant reports another agent state
AgentStateChanges ==
  /\ mounted
  /\ \E state \in AgentStates \ {agentState} : agentState' = state
  /\ UNCHANGED <<viewVars, sessionStarted, renderedSession, sessionTimeout, sessionEnd,
                 otherVars>>

\* time passes while the 10 s timer is set; a pending render takes far less
\* than a tick of the clock
Tick ==
  /\ mounted
  /\ ~RenderPending
  /\ sessionTimeout.armed
  /\ sessionTimeout.left > 0
  /\ sessionTimeout' = [sessionTimeout EXCEPT !.left = @ - 1]
  /\ UNCHANGED <<viewVars, sessionStarted, agentState, renderedSession, sessionEnd,
                 otherVars>>

\* the 10 s timer fires: its callback tests the agentState of the render that
\* set it, and shows the notice and disconnects when that one is not
\* available.  sessionEnd keeps what the callback did, with the agent state
\* and the sessionStarted prop of that moment.
SessionTimeoutFires ==
  /\ mounted
  /\ sessionTimeout.armed
  /\ sessionTimeout.left = 0
  /\ sessionTimeout' = NoSessionTimeout
  /\ sessionEnd' =
       [fired |-> TRUE,
        disconnected |-> ~isAgentAvailable(sessionTimeout.agentState),
        reason |-> IF isAgentAvailable(sessionTimeout.agentState) THEN ""
                   ELSE IF sessionTimeout.agentState = "connecting" THEN NotJoinedReason
                   ELSE NotInitializedReason,
        agentState |-> agentState,
        sessionStarted |-> sessionStarted]
  /\ UNCHANGED <<viewVars, sessionStarted, agentState, renderedSession, otherVars>>

\* getDiagnosticTextFromAdapter.  A function value is what a call of it
\* does: it returns a value or it throws.
K_llmAdapter == <<"__llmAdapter">>
K_get_diagnostic_text_payload == <<"get_diagnostic_text_payload">>
Returns(v) == [t |-> "fn", s |-> <<"returns">>, kv |-> <<[k |-> <<>>, v |-> v]>>]
Throws == [t |-> "fn", s |-> <<"throws">>, kv |-> <<>>]
IsFunction(v) == v.t = "fn"

\* what the body of the try block comes to: a returned value or a throw
Returned(v) == [thrown |-> FALSE, value |-> v]
Thrown == [thrown |-> TRUE, value |-> JUndef]

\* the try block; window is undefined where there is no window
AdapterLookup(window) ==
  IF window.t = "undefined" THEN Returned(JNull)
  ELSE
    LET adapter == Get(window, K_llmAdapter)
        accessor == Get(adapter, K_get_diagnostic_text_payload)
    IN IF ~Truthy(adapter) \/ ~IsFunction(accessor) THEN Returned(JNull)
       ELSE IF accessor = Throws THEN Thrown
       ELSE LET payload == accessor.kv[1].v IN
            IF ~Truthy(payload) THEN Returned(JNull)
            ELSE IF IsString(payload)
                 THEN IF JSONparse(payload.s).ok THEN Returned(JSONparse(payload.s).v)
                      ELSE Thrown
            ELSE Returned(payload)

Fulfilled(v) == [state |-> "fulfilled", value |-> v]
Rejected == [state |-> "rejected", value |-> JUndef]

\* variant: what is thrown inside is not caught
getDiagnosticTextFromAdapter_uncaught(window) ==
  IF AdapterLookup(window).thrown THEN Rejected
  ELSE Fulfilled(AdapterLookup(window).value)

\* how the promise of the async function settles: catch (error) returns null
getDiagnosticTextFromAdapter(window) ==
  IF AdapterLookup(window).thrown THEN Fulfilled(JNull)
  ELSE Fulfilled(AdapterLookup(window).value)

WindowWith(adapter) == JObj(<<KV(K_llmAdapter, adapter)>>)
AdapterWith(accessor) == JObj(<<KV(K_get_diagnostic_text_payload, accessor)>>)

\* the global object at the time of a call: no window, no adapter, a null
\* adapter, no accessor, an accessor that is no function, and accessors
\* that throw or return null, undefined, '', JSON text, other text, an
\* object
AdapterWindows ==
  { JUndef,
    JObj(<<>>),
    WindowWith(JNull),
    WindowWith(JObj(<<>>)),
    WindowWith(AdapterWith(JStr(<<"later">>))) } \cup
  { WindowWith(AdapterWith(f)) :
      f \in { Throws,
              Returns(JNull),
              Returns(JUndef),
              Returns(JStr(<<>>)),
              Returns(JStr(JSONstringify(ReportOf(<<"Adapter">>)))),
              Returns(JStr(<<"oops">>)),
              Returns(ReportOf(<<"Adapter">>)) } }

\* the page sets up, replaces or removes the global
WindowChanges ==
  /\ \E window \in AdapterWindows \ {adapterWindow} : adapterWindow' = window
  /\ UNCHANGED <<adapterPromise, viewVars, timeoutVars, handlerVars, selectorVars>>

\* a call of getDiagnosticTextFromAdapter: the body runs at once and the
\* promise it returns is pending
CallAdapter ==
  /\ adapterPromise.state # "pending"
  /\ adapterPromise' =
       [state |-> "pending", value |-> JUndef, window |-> adapterWindow,
        settles |-> getDiagnosticTextFromAdapter(adapterWindow)]
  /\ UNCHANGED <<adapterWindow, viewVars, timeoutVars, handlerVars, selectorVars>>

\* the promise settles
AdapterSettles ==
  /\ adapterPromise.state = "pending"
  /\ adapterPromise' =
       [adapterPromise EXCEPT !.state = adapterPromise.settles.state,
                              !.value = adapterPromise.settles.value]
  /\ UNCHANGED <<adapterWindow, viewVars, timeoutVars, handlerVars, selectorVars>>

\* VehicleSelector: the vehicles of the list and their models
vehicles ==
  << [name |-> "Honda", models |-> <<"Civic", "Jazz">>],
     [name |-> "Maruti", models |-> <<"Ertiga", "Baleno">>] >>

\* vehicles.find(v => v.name === selectedVehicle), and its models or []
availableModels(vehicle) ==
  LET found == {i \in 1..Len(vehicles) : vehicles[i].name = vehicle} IN
  IF found = {} THEN <<>> ELSE vehicles[FirstOf(found)].models

\* the calls of onVehicleChange that the model keeps
MaxChanges == 3

\* variant: the model is kept when the vehicle changes
handleVehicleChange_keepModel(vehicle) ==
  /\ selectedVehicle' = vehicle
  /\ selectedModel' = selectedModel
  /\ isVehicleDropdownOpen' = FALSE
  /\ vehicleChanges' = Append(vehicleChanges, [vehicle |-> vehicle, model |-> selectedModel])
  /\ UNCHANGED isModelDropdownOpen

handleVehicleChange(vehicle) ==
  /\ selectedVehicle' = vehicle
  /\ selectedModel' = ""
  /\ isVehicleDropdownOpen' = FALSE
  /\ vehicleChanges' = Append(vehicleChanges, [vehicle |-> vehicle, model |-> ""])
  /\ UNCHANGED isModelDropdownOpen

handleModelChange(model) ==
  /\ selectedModel' = model
  /\ isModelDropdownOpen' = FALSE
  /\ vehicleChanges' = Append(vehicleChanges, [vehicle |-> selectedVehicle, model |-> model])
  /\ UNCHANGED <<selectedVehicle, isVehicleDropdownOpen>>

\* a click on the vehicle button (the selector is not disabled)
ToggleVehicleDropdown ==
  /\ isVehicleDropdownOpen' = ~isVehicleDropdownOpen
  /\ UNCHANGED <<selectedVehicle, selectedModel, isModelDropdownOpen, vehicleChanges>>
  /\ UNCHANGED <<viewVars, timeoutVars, handlerVars, adapterVars>>

\* a click on the model button, which is disabled while no vehicle with
\* models is selected
ToggleModelDropdown ==
  /\ selectedVehicle # ""
  /\ Len(availableModels(selectedVehicle)) # 0
  /\ isModelDropdownOpen' = ~isModelDropdownOpen
  /\ UNCHANGED <<selectedVehicle, selectedModel, isVehicleDropdownOpen, vehicleChanges>>
  /\ UNCHANGED <<viewVars, timeoutVars, handlerVars, adapterVars>>

\* a click on an entry of the open vehicle list
ClickVehicle ==
  /\ isVehicleDropdownOpen
  /\ Len(vehicleChanges) < MaxChanges
  /\ \E i \in 1..Len(vehicles) : handleVehicleChange(vehicles[i].name)
  /\ UNCHANGED <<viewVars, timeoutVars, handlerVars, adapterVars>>

\* a click on an entry of the open model list, which shows the models of
\* the selected vehicle
ClickModel ==
  /\ isModelDropdownOpen
  /\ Len(vehicleChanges) < MaxChanges
  /\ \E i \in 1..Len(availableModels(selectedVehicle)) :
       handleModelChange(availableModels(selectedVehicle)[i])
  /\ UNCHANGED <<viewVars, timeoutVars, handlerVars, adapterVars>>

\* the calls of onDiagnosticText after one more run of a handler
Logged(run) ==
  IF run.result.called THEN Append(callbackLog, run.result.arg) ELSE callbackLog

\* a message event reaches the handleMessage of useDiagnosticWebSocket
HandleEvent ==
  /\ Len(callbackLog) < MaxCalls
  /\ \E event \in HandlerEvents :
       LET run == RunHandleMessage(event) IN
       /\ handlerEvent' =
            [event |-> event, by |-> "hook", result |-> run.result, escaped |-> run.escaped]
       /\ callbackLog' = Logged(run)
  /\ UNCHANGED <<viewVars, timeoutVars, selectorVars, adapterVars>>

\* a message event reaches the handleMessage of useDiagnosticWebSocketDirect
HandleEventDirect ==
  /\ Len(callbackLog) < MaxCalls
  /\ \E event \in {e \in HandlerEvents : HasKey(e, K_data)} :
       LET run == RunHandleMessageDirect(event) IN
       /\ handlerEvent' =
            [event |-> event, by |-> "direct", result |-> run.result,
             escaped |-> run.escaped]
       /\ callbackLog' = Logged(run)
  /\ UNCHANGED <<viewVars, timeoutVars, selectorVars, adapterVars>>

Next ==
  \/ Mount
  \/ Unmount
  \/ RoomChange
  \/ NewMessage
  \/ Render
  \/ SocketMessage
  \/ FallbackTimerFires

Spec == Init /\ [][Next]_vars

\* the session with its messages and its fallback timer alone: no socket
\* event and no room change.  React renders after a state change, and a
\* timer that stays set fires.
InitFallback == Init /\ engineKind = "client"

NextFallback ==
  \/ Mount
  \/ Unmount
  \/ NewMessage
  \/ Render
  \/ FallbackTimerFires

\* what every Render step does to the rendered values, and no other step of
\* NextFallback does: a pending render is not postponed forever
Rendering ==
  /\ RenderPending
  /\ rendered' = [payload |-> diagnosticTextPayload, messages |-> messages]
  /\ renderedSession' = SessionDeps

\* React renders after a state change, and a timer that stays set fires
SpecFallback ==
  /\ InitFallback
  /\ [][NextFallback]_vars
  /\ WF_<<rendered, renderedSession>>(Rendering)
  /\ WF_vars(FallbackTimerFires)

\* the two message handlers alone, given one event after the other
InitHandler == Init /\ engineKind = "client"

NextHandler ==
  \/ HandleEvent
  \/ HandleEventDirect

SpecHandler == InitHandler /\ [][NextHandler]_vars

\* the VehicleSelector alone: clicks on its two buttons and on the entries
\* of its lists.  React renders a click's state changes before the next
\* click is handled.
InitSelector == Init /\ engineKind = "client"

NextSelector ==
  \/ ToggleVehicleDropdown
  \/ ToggleModelDropdown
  \/ ClickVehicle
  \/ ClickModel

SpecSelector == InitSelector /\ [][NextSelector]_vars

\* getDiagnosticTextFromAdapter alone, called again and again while the
\* page changes the global
InitAdapter == Init /\ engineKind = "client"

NextAdapter ==
  \/ WindowChanges
  \/ CallAdapter
  \/ AdapterSettles

SpecAdapter == InitAdapter /\ [][NextAdapter]_vars

\* the session with its 10 s timeout alone: the parent starts and stops the
\* session, the agent changes state, time passes.  React renders every state
\* change however often the state changes, the clock goes on whenever a
\* timer is set, and a timer whose time is over fires.
InitTimeout == Init /\ engineKind = "client"

NextTimeout ==
  \/ Mount
  \/ Unmount
  \/ SessionStartedChanges
  \/ AgentStateChanges
  \/ Render
  \/ Tick
  \/ SessionTimeoutFires

SpecTimeout ==
  /\ InitTimeout
  /\ [][NextTimeout]_vars
  /\ SF_<<rendered, renderedSession>>(Rendering)
  /\ SF_vars(Tick)
  /\ WF_vars(SessionTimeoutFires)

(***************************************************************************)
(* Properties of the session                                               *)
(***************************************************************************)
\* the last render saw the current state
RenderedCurrent ==
  /\ mounted
  /\ rendered.payload = diagnosticTextPayload
  /\ rendered.messages = messages

\* C1: at every render with a non-empty stored payload, the text handed to
\* the panel is exactly that payload, whatever the chat messages are.
C1_StoredPayloadWins ==
  (mounted /\ rendered.payload # <<>>) => panelText = rendered.payload

\* a render with a stored payload and a chat message that decodes to other text
C1_Witness ==
  /\ mounted
  /\ rendered.payload # <<>>
  /\ InferFromMessages(rendered.messages) # <<>>
  /\ InferFromMessages(rendered.messages) # rendered.payload
  /\ panelText = rendered.payload

\* C2: within one agent turn the stored payload is produced at most once.
C2_AtMostOncePerTurn ==
  Turn(messages) > 0 => producedInTurn <= 1

\* C3: a side-channel payload stored by the time the fallback timer fires
\* makes the fallback return without calling the adapter and leaves the
\* stored payload as it is.
C3_SideChannelWins ==
  (lastFallback.fired /\ lastFallback.stored = "side")
    => (~lastFallback.calledAdapter /\ ~lastFallback.changed)

\* the listener the hook has registered now, if it is mounted
IsCurrentListener(r, l) == mounted /\ r = room /\ l.h = handlerRef

\* C4: every listener the hook registered and then tore down is unregistered:
\* only the current setup's listener is registered, at most one at any time,
\* and no diagnostic:text message runs the callback of a torn-down setup.
C4_ListenersUnregistered ==
  /\ \A r \in Rooms : \A i \in 1..Len(listeners[r]) :
       IsCurrentListener(r, listeners[r][i])
  /\ Len(listeners[1]) + Len(listeners[2]) <= 1
  /\ lastDelivery.stale = 0

(***************************************************************************)
(* The decoding ladder on its own: a session that starts with a transcript *)
(* drawn from every encoding, well formed and malformed, and then mounts,  *)
(* lets the fallback fire and renders.                                     *)
(***************************************************************************)
MaxDecodeMsgs == 2

MalformedJson == <<"{", Q, "content">>

\* one assistant message per encoding, with the content it carries
EncodedSamples ==
  { [text |-> EncTextOnly(<<SP>> \o JSONstringify(ReportOf(<<"Brakes">>))),
     content |-> <<"Brakes">>, plain |-> FALSE],
    [text |-> EncVoiceText(<<"Hi">>, JSONstringify(ReportOf(<<"Engine">>))),
     content |-> <<"Engine">>, plain |-> FALSE],
    [text |-> EncEnvelope(<<"Hi">>, ReportOf(<<"Clutch">>)),
     content |-> <<"Clutch">>, plain |-> FALSE],
    [text |-> <<"hello">>, content |-> <<"hello">>, plain |-> TRUE] }

\* one assistant message per encoding whose JSON does not parse, with the
\* fragment the encoding extracts
MalformedSamples ==
  { [text |-> EncTextOnly(<<SP>> \o MalformedJson), fragment |-> MalformedJson],
    [text |-> EncVoiceText(<<"Hi">>, <<"oops">>), fragment |-> <<"oops">>],
    [text |-> <<"{", Q, "text_output", Q, ":">>,
     fragment |-> <<"{", Q, "text_output", Q, ":">>] }

\* messages of an encoding whose JSON parses but has no string content
ContentlessSamples ==
  { EncTextOnly(<<"5">>), EncVoiceText(<<"Hi">>, <<"null">>) }

\* envelopes with an empty voice_output or an empty text_output, and a
\* VOICE:...|||TEXT: message with blanks around its voice part
ChatSamples ==
  { EncEnvelope(<<>>, ReportOf(<<"Clutch">>)),
    EncEnvelope(<<"Hi">>, JNull),
    EncVoiceText(<<SP, "Hi", SP>>, JSONstringify(ReportOf(<<"Engine">>))) }

DecodeTexts ==
  {e.text : e \in EncodedSamples} \cup {e.text : e \in MalformedSamples}
    \cup ContentlessSamples \cup ChatSamples

DecodeMessages ==
  {Msg(FALSE, t) : t \in DecodeTexts}
    \cup {Msg(TRUE, EncTextOnly(JSONstringify(ReportOf(<<"Local">>))))}

RECURSIVE Transcripts(_)
Transcripts(n) ==
  IF n = 0 THEN {<<>>}
  ELSE Transcripts(n - 1)
         \cup {Append(t, m) : t \in {u \in Transcripts(n - 1) : Len(u) = n - 1},
                              m \in DecodeMessages}

InitDecode ==
  /\ engineKind = "client"
  /\ room = 1
  /\ mounted = FALSE
  /\ instance = 0
  /\ handlerRef = 0
  /\ setups = 0
  /\ listeners = [r \in Rooms |-> <<>>]
  /\ messages \in Transcripts(MaxDecodeMsgs)
  /\ diagnosticTextPayload = <<>>
  /\ rendered = [payload |-> <<>>, messages |-> <<>>]
  /\ timer = NoTimer
  /\ panelText = <<>>
  /\ delivered = 0
  /\ storedBy = NotStored
  /\ producedInTurn = 0
  /\ lastFallback = NoFallback
  /\ lastDelivery = NoDelivery
  /\ SessionIdle
  /\ OthersIdle

NextDecode ==
  \/ Mount
  \/ FallbackTimerFires
  \/ Render

SpecDecode == InitDecode /\ [][NextDecode]_vars

(***************************************************************************)
(* Properties of the decoding ladder                                       *)
(***************************************************************************)
\* what one assistant message yields at each step of the ladder
YieldTextOnly(raw) == TextOnlyLoop(<<Msg(FALSE, raw)>>, 1)
YieldVoiceText(raw) == VoiceTextLoop(<<Msg(FALSE, raw)>>, 1)
YieldEnvelope(raw) == LegacyEnvelopeLoop(<<Msg(FALSE, raw)>>, 1)

Newest(I) == CHOOSE i \in I : \A j \in I : j <= i

\* the text the ranking of C5 selects from the assistant messages am
RankedChoice(am) ==
  LET I1 == {i \in 1..Len(am) : YieldTextOnly(am[i].message).found}
      I2 == {i \in 1..Len(am) : YieldVoiceText(am[i].message).found}
      I3 == {i \in 1..Len(am) : YieldEnvelope(am[i].message).found}
  IN IF I1 # {} THEN YieldTextOnly(am[Newest(I1)].message).text
     ELSE IF I2 # {} THEN YieldVoiceText(am[Newest(I2)].message).text
     ELSE IF I3 # {} THEN YieldEnvelope(am[Newest(I3)].message).text
     ELSE <<>>

\* C5: with no payload stored the panel text is chosen by format rank:
\* the newest assistant message that yields a TEXT_ONLY: text if there is
\* one, else the newest that yields a VOICE:...|||TEXT: text, else the newest
\* text_output envelope; a higher rank beats a newer message of a lower rank.
C5_FormatRank ==
  (mounted /\ rendered.payload = <<>>)
    => panelText = RankedChoice(AssistantMessages(rendered.messages))

\* an older TEXT_ONLY: message is used although a newer VOICE:...|||TEXT:
\* message decodes too
C5_Witness ==
  /\ mounted
  /\ rendered.payload = <<>>
  /\ LET am == AssistantMessages(rendered.messages) IN
       /\ Len(am) = 2
       /\ YieldTextOnly(am[1].message).found
       /\ YieldVoiceText(am[2].message).found
       /\ panelText = YieldTextOnly(am[1].message).text
       /\ panelText # YieldVoiceText(am[2].message).text

\* the state rendered is the transcript <<m>> with no payload stored
RenderedOnly(text) ==
  /\ mounted
  /\ rendered.payload = <<>>
  /\ rendered.messages = <<Msg(FALSE, text)>>

\* C6: for each of the four encodings of a single assistant message that
\* carries content c, the panel's main content is c; for a plain-text
\* message the source and video lists are empty.
C6_AllEncodingsDecode ==
  \A e \in EncodedSamples :
    RenderedOnly(e.text)
      => /\ PanelParse(panelText).mainContent = e.content
         /\ e.plain => /\ PanelParse(panelText).webSources = <<>>
                       /\ PanelParse(panelText).youtubeVideos = <<>>

\* C7: a fragment that fails to parse, in any encoding, is the text handed
\* to the panel, and the panel shows it as unstructured main content.
C7_MalformedFallsBack ==
  \A e \in MalformedSamples :
    RenderedOnly(e.text)
      => /\ panelText = e.fragment
         /\ PanelParse(panelText) = legacyParse(e.fragment)

\* C8: a diagnostic:text message whose payload is a string that is not JSON
\* runs the callback exactly once, and the panel's main content is then
\* that raw string.
C8_RawStringShown ==
  (/\ RenderedCurrent
   /\ lastDelivery.stored
   /\ lastDelivery.arg.t = "str"
   /\ storedBy.by = "side")
    => /\ lastDelivery.calls = 1
       /\ PanelParse(panelText).mainContent = lastDelivery.arg.s

\* the newest message, if it is an agent message that decodes by itself
NewestAgentText ==
  IF Len(messages) > 0 /\ ~messages[Len(messages)].isLocal
  THEN InferFromMessages(<<messages[Len(messages)]>>)
  ELSE <<>>

\* C9: once a newer agent message carrying diagnostic content has arrived,
\* a payload stored during an earlier agent turn is not what the panel
\* displays.
C9_LatestTurnShown ==
  (/\ RenderedCurrent
   /\ NewestAgentText # <<>>
   /\ storedBy.by # "none"
   /\ storedBy.turn >= 1
   /\ storedBy.turn < Turn(messages))
    => panelText # diagnosticTextPayload

\* does the message carry a report that decodes: JSON with string content
\* behind one of the encodings
CarriesReport(raw) ==
  \/ /\ StartsWith(raw, TEXT_ONLY_PREFIX)
     /\ LET p == JSONparse(Trim(SliceFrom(raw, Len(TEXT_ONLY_PREFIX)))) IN
          p.ok /\ Truthy(p.v) /\ IsString(Get(p.v, K_content))
  \/ /\ VoiceTextMatch(raw).matched
     /\ LET p == JSONparse(VoiceTextMatch(raw).text) IN
          p.ok /\ Truthy(p.v) /\ IsString(Get(p.v, K_content))
  \/ JSONparse(raw).ok /\ HasTextOutputContent(JSONparse(raw).v)

\* does the message match any step of the ladder, the fallback of a
\* malformed fragment included
MatchesLadder(raw) ==
  \/ YieldTextOnly(raw).found
  \/ YieldVoiceText(raw).found
  \/ YieldEnvelope(raw).found

NothingStored == mounted /\ rendered.payload = <<>> /\ diagnosticTextPayload = <<>>

EmptyPanel ==
  /\ panelText = <<>>
  /\ ~PanelView(panelText).showsMain
  /\ ~PanelView(panelText).showsSources
  /\ ~PanelView(panelText).showsVideos

\* C10 as claimed: with nothing stored and no assistant message carrying a
\* decodable report, the panel text is empty and no section is rendered.
C10_MissingPayloadEmptyPanel ==
  (/\ NothingStored
   /\ \A i \in 1..Len(rendered.messages) :
        rendered.messages[i].isLocal \/ ~CarriesReport(rendered.messages[i].message))
    => EmptyPanel

\* C10 as amended: with nothing stored and no assistant message matching a
\* step of the decoding ladder (a malformed TEXT_ONLY: or VOICE:...|||TEXT:
\* fragment matches one), the panel text is empty, no section is rendered,
\* and a fallback that found nothing leaves no timer armed.
C10_NoLadderMatchEmptyPanel ==
  (/\ NothingStored
   /\ \A i \in 1..Len(rendered.messages) :
        rendered.messages[i].isLocal \/ ~MatchesLadder(rendered.messages[i].message))
    => /\ EmptyPanel
       /\ lastFallback.fired => ~timer.armed

\* the fallback asked an adapter that returned null, an assistant message is
\* there, and the panel is empty
C10_Witness ==
  /\ NothingStored
  /\ lastFallback.fired
  /\ lastFallback.calledAdapter
  /\ Len(AssistantMessages(rendered.messages)) > 0
  /\ \A i \in 1..Len(rendered.messages) :
       rendered.messages[i].isLocal \/ ~MatchesLadder(rendered.messages[i].message)
  /\ EmptyPanel

(***************************************************************************)
(* The video list on its own: a session whose one agent message is a       *)
(* TEXT_ONLY: report with a youtube_videos list drawn from the entries     *)
(* below.  The list reaches sanitizeVideos the way it does in the program: *)
(* through getLatestTextContent and parseStructured.                       *)
(***************************************************************************)
MaxVideos == 2

ShortUrl == <<"https", ":", "/", "/", "youtu", ".", "be", "/", "abc123">>
LongUrl ==
  <<"https", ":", "/", "/", "www", ".", "youtube", ".", "com", "/", "watch", "?",
    "v", "=", "ab", "-", "c", "&", "t", "=", "5">>
OtherUrl == <<"https", ":", "/", "/", "example", ".", "com", "/", "x">>
EvilThumb == <<"http", ":", "/", "/", "evil", ".", "test", "/", "t", ".", "jpg">>
MarkupTitle == <<"<", "a", ">", "Fix", "<", "/", "a", ">">>

\* the entries a youtube_videos list is made of
VideoSamples ==
  { JObj(<<KV(K_url, JStr(ShortUrl)), KV(K_title, JStr(MarkupTitle))>>),
    JObj(<<KV(K_url, JStr(LongUrl)), KV(K_title, JStr(<<"Fix">>))>>),
    JObj(<<KV(K_video_id, JStr(<<"xyz">>))>>),
    JObj(<<KV(K_url, JStr(OtherUrl)), KV(K_title, JStr(<<"Fix">>))>>),
    JObj(<<KV(K_url, JStr(LongUrl)), KV(K_video_id, JStr(<<"vid1">>)),
           KV(K_thumbnail, JStr(EvilThumb))>>),
    JObj(<<KV(K_url, JStr(OtherUrl)), KV(K_video_id, JStr(<<"vid2">>))>>),
    JNum("5"),
    JNull }

RECURSIVE VideoLists(_)
VideoLists(n) ==
  IF n = 0 THEN {<<>>}
  ELSE VideoLists(n - 1)
         \cup {Append(l, v) : l \in {u \in VideoLists(n - 1) : Len(u) = n - 1},
                              v \in VideoSamples}

VideoReport(list) ==
  JObj(<<KV(K_content, JStr(<<"Report">>)), KV(K_youtube_videos, JArr(list))>>)

InitVideos ==
  /\ engineKind = "client"
  /\ room = 1
  /\ mounted = FALSE
  /\ instance = 0
  /\ handlerRef = 0
  /\ setups = 0
  /\ listeners = [r \in Rooms |-> <<>>]
  /\ messages \in {<<Msg(FALSE, EncTextOnly(JSONstringify(VideoReport(l))))>> :
                     l \in VideoLists(MaxVideos)}
  /\ diagnosticTextPayload = <<>>
  /\ rendered = [payload |-> <<>>, messages |-> <<>>]
  /\ timer = NoTimer
  /\ panelText = <<>>
  /\ delivered = 0
  /\ storedBy = NotStored
  /\ producedInTurn = 0
  /\ lastFallback = NoFallback
  /\ lastDelivery = NoDelivery
  /\ SessionIdle
  /\ OthersIdle

NextVideos ==
  \/ Mount
  \/ FallbackTimerFires
  \/ Render

SpecVideos == InitVideos /\ [][NextVideos]_vars

(***************************************************************************)
(* Properties of sanitizeVideos                                            *)
(***************************************************************************)
\* the list the panel hands to sanitizeVideos, and what it returns
RawVideos == PanelParse(panelText).youtubeVideos
CleanVideos == sanitizeVideos(RawVideos)

\* the entries of the raw list that reach the .map step
IsCandidate(v) == Truthy(v) /\ IsObjectType(v)

\* url contains a recognized video-host substring
HasVideoHost(url) == \E i \in 1..Len(url) : url[i] = "youtube"

C12_DroppedOnlyWhenLackingBoth ==
  mounted =>
    Len(CleanVideos) =
      Cardinality({j \in 1..Len(RawVideos) :
                     /\ IsCandidate(RawVideos[j])
                     /\ \/ CleanVideo(RawVideos[j]).video_id # <<>>
                        \/ HasVideoHost(CleanVideo(RawVideos[j]).url)})

\* C13: the entry with the short-form url, no video_id and a title in markup
\* is retained, with the title stripped of the markup, the id taken from
\* the url and the thumbnail built from the id.
C13_ShortUrlRetained ==
  (/\ mounted
   /\ RawVideos = <<JObj(<<KV(K_url, JStr(ShortUrl)), KV(K_title, JStr(MarkupTitle))>>)>>)
    => /\ Len(CleanVideos) = 1
       /\ CleanVideos[1].title = <<"Fix">>
       /\ CleanVideos[1].video_id = <<"abc123">>
       /\ CleanVideos[1].thumbnail = ThumbnailOf(<<"abc123">>)

\* the entry v with its three thumbnail fields set to t
SetThumbs(v, t) ==
  IF v.t = "obj"
  THEN JObj(Put(Put(Put(v.kv, K_thumbnail, JStr(t)), K_thumbnail_hq, JStr(t)),
                K_thumbnail_max, JStr(t)))
  ELSE v

\* C14: the thumbnail of every output entry is
\* https://img.youtube.com/vi/<video_id>/mqdefault.jpg, and a list that
\* differs from the one given only in the thumbnail, thumbnail_hq and
\* thumbnail_max fields of its entries has the same output.
C14_ThumbnailFromIdAlone ==
  mounted =>
    /\ \A i \in 1..Len(CleanVideos) :
         CleanVideos[i].thumbnail =
           <<"https", ":", "/", "/", "img", ".", "youtube", ".", "com", "/", "vi", "/">>
             \o CleanVideos[i].video_id \o <<"/", "mqdefault", ".", "jpg">>
    /\ \A t \in {EvilThumb, <<"other">>} :
         sanitizeVideos([j \in 1..Len(RawVideos) |-> SetThumbs(RawVideos[j], t)])
           = CleanVideos

\* an entry that came with a thumbnail of its own is in the output
C14_Witness ==
  /\ mounted
  /\ \E j \in 1..Len(RawVideos) :
       /\ HasKey(RawVideos[j], K_thumbnail)
       /\ \E i \in 1..Len(CleanVideos) :
            /\ CleanVideos[i] = CleanVideo(RawVideos[j])
            /\ CleanVideos[i].thumbnail # Get(RawVideos[j], K_thumbnail).s

\* the positions of the raw list whose entries are valid
ValidPositions ==
  {j \in 1..Len(RawVideos) :
     /\ IsCandidate(RawVideos[j])
     /\ CleanVideo(RawVideos[j]).url # <<>>
     /\ CleanVideo(RawVideos[j]).video_id # <<>>
     /\ HasVideoHost(CleanVideo(RawVideos[j]).url)}

\* C15: the output is the subsequence of the valid entries in their original
\* order, one output entry for each valid position, duplicates included.
C15_OrderKeptNoDedup ==
  mounted =>
    /\ Len(CleanVideos) = Cardinality(ValidPositions)
    /\ \A j \in ValidPositions :
         CleanVideos[Cardinality({k \in ValidPositions : k <= j})]
           = CleanVideo(RawVideos[j])

\* the same valid entry twice gives two output entries; two different valid
\* entries come out in the order they went in
C15_Witness ==
  /\ mounted
  /\ Len(RawVideos) = 2
  /\ Len(CleanVideos) = 2
  /\ RawVideos[1] = RawVideos[2]
  /\ CleanVideos[1] = CleanVideos[2]

(***************************************************************************)
(* The main content on its own: a session whose one agent message is a     *)
(* TEXT_ONLY: report with one of the contents and one of the video lists   *)
(* below.                                                                  *)
(***************************************************************************)
MobileUrl ==
  <<"https", ":", "/", "/", "m", ".", "youtube", ".", "com", "/", "watch", "?",
    "v", "=", "abc">>
PortUrl ==
  <<"http", ":", "/", "/", "example", ".", "com", ":", "8080", "/", "a", "?",
    "x", "=", "5", "#", "top">>
BareShortUrl == <<"https", ":", "/", "/", "youtu", ".", "be", "/">>

ContentSamples ==
  { CategoryMarker \o <<SP, "Brakes">>,
    CategoryMarker \o <<SP, "Brakes", NL, "Watch", SP>> \o LongUrl,
    <<"Watch", SP>> \o LongUrl \o <<SP, "and", SP>> \o OtherUrl,
    <<"See", SP>> \o OtherUrl,
    ShortUrl \o <<NL>> \o PortUrl,
    <<"Plain", SP, "text">>,
    <<>>,
    <<"*", "*", "Causes", ":", "*", "*", NL, NL, BULLET, SP, "Worn", SP, "pads",
      NL, BULLET, SP, "Low", SP, "fluid">>,
    BareShortUrl \o <<SP>> \o MobileUrl }

\* the youtube_videos lists: none, one that is kept, and two that are
\* dropped whole
FormatLists ==
  { <<>>,
    <<JObj(<<KV(K_url, JStr(LongUrl)), KV(K_title, JStr(<<"Fix">>))>>)>>,
    <<JNull>>,
    <<JObj(<<KV(K_video_id, JStr(<<"xyz">>))>>)>> }

ContentReport(content, list) ==
  JObj(<<KV(K_content, JStr(content)), KV(K_youtube_videos, JArr(list))>>)

InitFormat ==
  /\ engineKind = "client"
  /\ room = 1
  /\ mounted = FALSE
  /\ instance = 0
  /\ handlerRef = 0
  /\ setups = 0
  /\ listeners = [r \in Rooms |-> <<>>]
  /\ messages \in {<<Msg(FALSE, EncTextOnly(JSONstringify(ContentReport(c, l))))>> :
                     c \in ContentSamples, l \in FormatLists}
  /\ diagnosticTextPayload = <<>>
  /\ rendered = [payload |-> <<>>, messages |-> <<>>]
  /\ timer = NoTimer
  /\ panelText = <<>>
  /\ delivered = 0
  /\ storedBy = NotStored
  /\ producedInTurn = 0
  /\ lastFallback = NoFallback
  /\ lastDelivery = NoDelivery
  /\ SessionIdle
  /\ OthersIdle

NextFormat ==
  \/ Mount
  \/ FallbackTimerFires
  \/ Render

SpecFormat == InitFormat /\ [][NextFormat]_vars

(***************************************************************************)
(* Properties of formatMainContent                                         *)
(***************************************************************************)
MainContent == PanelView(panelText).mainContent

Contains(s, pat) == \E i \in 1..Len(s) : MatchesAt(s, i, pat)

\* a bare http(s) url starts at i
IsUrlStart(s, i) ==
  /\ s[i] \in {"http", "https"}
  /\ MatchesAt(s, i + 1, <<":", "/", "/">>)
  /\ IsWord(At(s, i + 4))

UrlStarts(s) == {i \in 1..Len(s) : IsUrlStart(s, i)}

\* the url at i has the form youtube.com/watch?v=... or youtu.be/..., with
\* or without a leading www.
IsVideoForm(s, i) ==
  \E p \in {WatchPath, ShortPath} :
    MatchesAt(s, i + 4, p) \/ MatchesAt(s, i + 4, <<"www", ".">> \o p)

HasPreviewBlock(html) == Contains(html, Tag("div", "preview"))

HasInlineVideoUrl(text) ==
  \E i \in UrlStarts(text) : IsVideoForm(text, i) /\ VideoUrlAt(text, i) > 0

IsHref(html, j) == j > 6 /\ MatchesAt(html, j - 6, <<"<", "a", SP, "href", "=", Q>>)
IsLinkText(html, j) == j > 4 /\ MatchesAt(html, j - 4, EndTag("svg"))

C18_CategoryBlockProduced ==
  mounted =>
    \A i \in 1..Len(MainContent) :
      (MatchesAt(MainContent, i, CategoryMarker \o <<SP>>) /\ IsWord(At(MainContent, i + 7)))
        => Contains(MainHtml(panelText),
                    CategoryBlock(SubSeq(MainContent, i + 7, LineEnd(MainContent, i + 7) - 1)))

(***************************************************************************)
(* Properties of the chat transcript                                       *)
(***************************************************************************)
DisplayedChat == displayMessages(rendered.messages)

IsTextOnly(text) == StartsWith(text, TEXT_ONLY_PREFIX)

\* text has the form VOICE:<v>|||TEXT:<t>, the separator being the one at j
IsVoiceFormAt(text, j) ==
  /\ StartsWith(text, VOICE_PREFIX)
  /\ j > Len(VOICE_PREFIX)
  /\ MatchesAt(text, j, TEXT_SEPARATOR)
  /\ \A k \in (Len(VOICE_PREFIX) + 1)..(j - 1) : ~MatchesAt(text, k, TEXT_SEPARATOR)

\* text is a JSON object with the keys voice_output and text_output
IsEnvelope(text) ==
  /\ JSONparse(text).ok
  /\ HasKey(JSONparse(text).v, K_voice_output)
  /\ HasKey(JSONparse(text).v, K_text_output)

\* what the chat is to show for a message, as a JS value
ExpectedDisplay(text) ==
  IF \E j \in 1..Len(text) : IsVoiceFormAt(text, j)
  THEN LET j == CHOOSE k \in 1..Len(text) : IsVoiceFormAt(text, k)
       IN JStr(Trim(SubSeq(text, Len(VOICE_PREFIX) + 1, j - 1)))
  ELSE IF IsEnvelope(text) THEN Get(JSONparse(text).v, K_voice_output)
  ELSE JStr(text)

\* the places of the messages the chat shows: all but the TEXT_ONLY: ones
ChatPositions ==
  {i \in 1..Len(rendered.messages) : ~IsTextOnly(rendered.messages[i].message)}

\* C19: the displayed list has, in the order and with the ids of the
\* messages it was derived from, the trimmed voice part of every
\* VOICE:<v>|||TEXT:<t> message, the voice_output of every envelope with
\* voice_output and text_output, and every other message unchanged (the
\* messages that start with TEXT_ONLY: are left to C20).
C19_DisplayedAsVoicePart ==
  mounted =>
    /\ Len(DisplayedChat) = Cardinality(ChatPositions)
    /\ \A i \in ChatPositions :
         LET d == DisplayedChat[Cardinality({k \in ChatPositions : k <= i})] IN
           /\ d.id = i
           /\ d.isLocal = rendered.messages[i].isLocal
           /\ d.message = ExpectedDisplay(rendered.messages[i].message)

InlineVideoAt(text, i) == SubSeq(text, i, i + InlineVideoLen(text, i) - 1)

\* the preview block of the video url at i of text, as it is in the html
\* when nothing is rewritten after it is made
IntactPreview(text, i) ==
  LineBreaks(PreviewBlock(InlineVideoAt(text, i),
                          ExtractVideoId(SubSeq(text, i, i + VideoUrlAt(text, i) - 1), 1)))

\* C28: with no structured video list, the preview block made for each
\* in-text YouTube url is in the html as it was made: the urls of its href,
\* of its image src and of its caption are not rewritten into hyperlinks.
C28_PreviewLeftIntact ==
  (mounted /\ ~PanelView(panelText).showsVideos) =>
    \A i \in UrlStarts(MainContent) :
      VideoUrlAt(MainContent, i) > 0
        => Contains(MainHtml(panelText), IntactPreview(MainContent, i))

(***************************************************************************)
(* Properties of the two normalization stages                              *)
(***************************************************************************)
\* the text handed to the panel is a JSON object whose content is a string
IsReportText(text) ==
  /\ JSONparse(text).ok
  /\ IsString(Get(JSONparse(text).v, K_content))

\* C27: whenever the text handed to the panel is a JSON object whose
\* content is a string, the empty string included, the panel treats it as
\* structured: the main content is that content and the sources and videos
\* are the arrays of the object.
C27_StagesAgreeOnStructured ==
  (mounted /\ IsReportText(panelText)) =>
    /\ PanelParse(panelText).structured
    /\ PanelParse(panelText).mainContent = Get(JSONparse(panelText).v, K_content).s
    /\ PanelParse(panelText).webSources
         = ArrayOrEmpty(Get(JSONparse(panelText).v, K_web_sources))
    /\ PanelParse(panelText).youtubeVideos
         = ArrayOrEmpty(Get(JSONparse(panelText).v, K_youtube_videos))

(***************************************************************************)
(* Properties of the fallback timer                                        *)
(***************************************************************************)
\* the render has set the timer for agent turn k with no payload stored
AwaitsLookup(k) ==
  /\ mounted
  /\ timer.armed
  /\ timer.closure = <<>>
  /\ Turn(rendered.messages) = k
  /\ ~rendered.messages[Len(rendered.messages)].isLocal

\* retrieveDiagnosticTextPayload has run for agent turn k or a later one
LookupDone(k) == lastFallback.fired /\ lastFallback.turn >= k

\* C21: once the timer is set for an agent message with no payload stored,
\* retrieveDiagnosticTextPayload is eventually run for that turn unless the
\* component unmounts, whatever messages arrive before the timer fires.
C21_LookupNotLost ==
  \A k \in 1..MaxMsgs : AwaitsLookup(k) ~> (LookupDone(k) \/ ~mounted)

(***************************************************************************)
(* Properties of the message handlers                                      *)
(***************************************************************************)
\* the data of the event last handled, decoded: the event's data, or the
\* event itself when it has none, read as JSON when it is a string
HandledData ==
  LET raw == IF HasKey(handlerEvent.event, K_data) THEN Get(handlerEvent.event, K_data)
             ELSE handlerEvent.event
  IN IF IsString(raw) THEN JSONparse(raw.s) ELSE Parsed(raw, 0)

HandledIsDiagnosticText ==
  /\ HandledData.ok
  /\ HandledData.v.t = "obj"
  /\ Get(HandledData.v, K_type) = JStr(DiagnosticTextType)

HandledPayload == Get(HandledData.v, K_payload)

\* the event carried its data as text, the payload of that data is a string
\* and the string is JSON
HandledJsonStringPayload ==
  /\ HandledIsDiagnosticText
  /\ IsString(Get(handlerEvent.event, K_data))
  /\ IsString(HandledPayload)
  /\ JSONparse(HandledPayload.s).ok

\* C24: a handler calls onDiagnosticText only for an event whose decoded
\* data is an object of type diagnostic:text; any other event makes no call;
\* no exception leaves the handler; a string payload that is JSON is passed
\* parsed.
C24_CallsOnlyForDiagnosticText ==
  handlerEvent.by # "none" =>
    /\ ~handlerEvent.escaped
    /\ handlerEvent.result.called => HandledIsDiagnosticText
    /\ HandledJsonStringPayload =>
         handlerEvent.result = Call(JSONparse(HandledPayload.s).v)

\* the direct handler has passed a parsed string payload, the only call made
\* so far
C24_Witness ==
  /\ handlerEvent.by = "direct"
  /\ HandledJsonStringPayload
  /\ handlerEvent.result.called
  /\ Len(callbackLog) = 1

(***************************************************************************)
(* Properties of the VehicleSelector                                       *)
(***************************************************************************)
ModelsOf(vehicle) ==
  {availableModels(vehicle)[i] : i \in 1..Len(availableModels(vehicle))}

\* C25: the selected model is empty or a model of the selected vehicle; a
\* selection of a vehicle resets the model and reports (vehicle, ''); a
\* selection of a model reports (current vehicle, model).  The calls of
\* onVehicleChange tell the selections: the last one reports the state, one
\* with a model follows a call for the same vehicle.
C25_ModelBelongsToVehicle ==
  /\ selectedModel = "" \/ selectedModel \in ModelsOf(selectedVehicle)
  /\ vehicleChanges # <<>> =>
       vehicleChanges[Len(vehicleChanges)] =
         [vehicle |-> selectedVehicle, model |-> selectedModel]
  /\ \A i \in 1..Len(vehicleChanges) :
       \/ vehicleChanges[i].model = ""
       \/ /\ vehicleChanges[i].model \in ModelsOf(vehicleChanges[i].vehicle)
          /\ i > 1
          /\ vehicleChanges[i - 1].vehicle = vehicleChanges[i].vehicle

\* a model was selected, then another vehicle while the model list was open
C25_Witness ==
  /\ vehicleChanges =
       << [vehicle |-> "Honda", model |-> ""],
          [vehicle |-> "Honda", model |-> "Civic"],
          [vehicle |-> "Maruti", model |-> ""] >>
  /\ selectedVehicle = "Maruti"
  /\ selectedModel = ""
  /\ isModelDropdownOpen

(***************************************************************************)
(* Properties of getDiagnosticTextFromAdapter                              *)
(***************************************************************************)
\* the window of the settled call, its adapter and its accessor
CalledAdapter == Get(adapterPromise.window, K_llmAdapter)
CalledAccessor == Get(CalledAdapter, K_get_diagnostic_text_payload)
AccessorReturns == CalledAccessor.t = "fn" /\ CalledAccessor.s = <<"returns">>
AccessorValue == CalledAccessor.kv[1].v

\* the cases in which the result is null: no window, no adapter, no
\* accessor, an empty value returned, a string returned that is no JSON
NullCase ==
  \/ adapterPromise.window.t = "undefined"
  \/ CalledAdapter.t \in {"undefined", "null"}
  \/ CalledAccessor.t # "fn"
  \/ AccessorReturns /\ AccessorValue \in {JNull, JUndef, JStr(<<>>)}
  \/ AccessorReturns /\ IsString(AccessorValue) /\ ~JSONparse(AccessorValue.s).ok

\* C26: the promise of getDiagnosticTextFromAdapter never rejects; it
\* resolves to null in the null cases and to the parsed payload when the
\* accessor returns one.
C26_AdapterNeverRejects ==
  /\ adapterPromise.state # "rejected"
  /\ adapterPromise.state = "fulfilled" =>
       /\ NullCase => adapterPromise.value = JNull
       /\ (~NullCase /\ AccessorReturns) =>
            adapterPromise.value =
              IF IsString(AccessorValue) THEN JSONparse(AccessorValue.s).v
              ELSE AccessorValue

\* a call has resolved to null for a string that is no JSON, and the page
\* has an adapter with a report by now
C26_Witness ==
  /\ adapterPromise.state = "fulfilled"
  /\ AccessorReturns
  /\ AccessorValue = JStr(<<"oops">>)
  /\ adapterPromise.value = JNull
  /\ adapterWindow = WindowWith(AdapterWith(Returns(ReportOf(<<"Adapter">>))))

(***************************************************************************)
(* Properties of the session timeout                                       *)
(***************************************************************************)
\* the session has started and the agent is in none of the available states
AgentMissing == mounted /\ sessionStarted /\ ~isAgentAvailable(agentState)

\* C22: if from some moment on the session is started and the agent is never
\* available, the notice is eventually shown and the room disconnected, even
\* when the agent keeps changing among the unavailable states.
C22_NoticeEventuallyShown == <>[]AgentMissing => <>(sessionEnd.disconnected)

\* C23: the timeout disconnects only when, at the moment the timer fires,
\* sessionStarted is true and the agent is not available, and the reason is
\* the did-not-join text exactly when the agent state is connecting then.
C23_DisconnectsOnlyWhenMissing ==
  sessionEnd.disconnected =>
    /\ sessionEnd.sessionStarted
    /\ ~isAgentAvailable(sessionEnd.agentState)
    /\ (sessionEnd.reason = NotJoinedReason <=> sessionEnd.agentState = "connecting")

====
